---- MODULE Spec2Model ----
(***************************************************************************)
(* State-machine model of the audiobook metadata proxy (proxy_service):    *)
(* the durable library (MongoDB), the ephemeral cache (Redis), the search  *)
(* fan-out, the unifier and the list importer.                             *)
(*                                                                         *)
(* Conventions.  A Python str is a sequence of one-character strings, so   *)
(* that lower(), replace(), isalnum() and len() are computed.  A Python    *)
(* dict is a function whose DOMAIN is its key set; a key whose value is    *)
(* None is modelled as an absent key (dict.get gives None for both).       *)
(* Optional request parameters use the marker None; the optional rating    *)
(* floor uses NoRate.                                                      *)
(***************************************************************************)
EXTENDS Integers, Sequences, FiniteSets, TLC

VARIABLES
    books,          \* books_collection: asin -> document
    bookCache,      \* redis keys "book_v7:<asin>": asin -> JSON value
    searchCache,    \* redis keys "search_v14:<clean_key>": clean_key -> JSON value
    geoCache,       \* redis keys "geo_ip:<ip>": ip -> country
    provider_stats, \* provider_stats_collection: sequence of inserted records
    logs,           \* logs_collection: sequence of inserted records
    unified,        \* unified-entity collection: set of entities
    lists,          \* lists_collection: the list documents, _id = position
    settings,       \* settings_collection: "global_config" document or NoConfig
    now,            \* the wall clock (datetime.utcnow), in ticks
    nreq,           \* number of request ids / entity ids generated so far (uuid4)
    upstream,       \* what each external provider answers (environment)
    background,     \* BackgroundTasks queue of the async import endpoint
    origin,         \* history: clean_key -> the request and reply that wrote searchCache[clean_key]
    last            \* history: the most recent handler call and its outcome

vars == <<books, bookCache, searchCache, geoCache, provider_stats, logs, unified,
          lists, settings, now, nreq, upstream, background, origin, last>>

----------------------------------------------------------------------------
(* Bounds of the model *)

MaxRequests == 2
MaxResults == 2
MaxClock == 3
MaxCandidates == 3
MaxLang == 3

----------------------------------------------------------------------------
(* Python values *)

None == <<"<None>">>
NoRate == -1
EmptyDict == [k \in {} |-> 0]

Str(x) == IF x = None THEN <<"N", "o", "n", "e">> ELSE x

Truthy(s) == s # None /\ s # <<>>

DictGet(d, k, default) == IF k \in DOMAIN d THEN d[k] ELSE default

DictSet(d, k, v) == [x \in DOMAIN d \cup {k} |-> IF x = k THEN v ELSE d[x]]

DictPop(d, k) == [x \in DOMAIN d \ {k} |-> d[x]]

DictUpdate(d, e) == [x \in DOMAIN d \cup DOMAIN e |-> IF x \in DOMAIN e THEN e[x] ELSE d[x]]

UpperLetters == <<"A", "B", "C", "D", "E", "F", "G", "H", "I", "J", "K", "L", "M",
                  "N", "O", "P", "Q", "R", "S", "T", "U", "V", "W", "X", "Y", "Z">>

LowerLetters == <<"a", "b", "c", "d", "e", "f", "g", "h", "i", "j", "k", "l", "m",
                  "n", "o", "p", "q", "r", "s", "t", "u", "v", "w", "x", "y", "z">>

Digits == {"0", "1", "2", "3", "4", "5", "6", "7", "8", "9"}

Range(s) == {s[i] : i \in DOMAIN s}

lower_char(c) ==
    IF c \in Range(UpperLetters)
    THEN LowerLetters[CHOOSE i \in DOMAIN UpperLetters : UpperLetters[i] = c]
    ELSE c

lower(s) == [i \in DOMAIN s |-> lower_char(s[i])]

isalnum(c) == c \in Range(UpperLetters) \cup Range(LowerLetters) \cup Digits

RECURSIVE Concat(_)
Concat(ss) == IF ss = <<>> THEN <<>> ELSE Head(ss) \o Concat(Tail(ss))

\* str.replace(old, new) for a one-character old
replace(s, old, new) == Concat([i \in DOMAIN s |-> IF s[i] = old THEN new ELSE <<s[i]>>])

----------------------------------------------------------------------------
(* The durable library: upsert_book_to_db *)

ASINS == {"X", "Y", "Z"}

\* datetime values kept by MongoDB, and their ISO strings
DateTime(t) == <<"datetime", t>>
IsoString(t) == <<"iso", t>>

upsert_no_pop(store, book_data, t) ==
    IF book_data = EmptyDict \/ "asin" \notin DOMAIN book_data THEN store
    ELSE LET update_data == DictSet(book_data, "updated_at", DateTime(t))
             asin == book_data["asin"]
         IN  IF asin \in DOMAIN store
             THEN DictSet(store, asin, DictUpdate(store[asin], update_data))
             ELSE DictSet(store, asin,
                          DictUpdate(DictUpdate([asin |-> asin], update_data),
                                     [added_at |-> DateTime(t), access_count |-> 1]))

\* an upsert whose $set carries added_at
upsert_reset_added_at(store, book_data, t) ==
    IF book_data = EmptyDict \/ "asin" \notin DOMAIN book_data THEN store
    ELSE LET update_data ==
                 DictSet(DictSet(DictPop(book_data, "access_count"), "added_at", DateTime(t)),
                         "updated_at", DateTime(t))
             asin == book_data["asin"]
         IN  IF asin \in DOMAIN store
             THEN DictSet(store, asin, DictUpdate(store[asin], update_data))
             ELSE DictSet(store, asin,
                          DictUpdate(DictUpdate([asin |-> asin], update_data),
                                     [access_count |-> 1]))

\* an upsert that stamps updated_at on insert only
upsert_stale_updated_at(store, book_data, t) ==
    IF book_data = EmptyDict \/ "asin" \notin DOMAIN book_data THEN store
    ELSE LET update_data == DictPop(DictPop(book_data, "added_at"), "access_count")
             asin == book_data["asin"]
         IN  IF asin \in DOMAIN store
             THEN DictSet(store, asin, DictUpdate(store[asin], update_data))
             ELSE DictSet(store, asin,
                          DictUpdate(DictUpdate([asin |-> asin], update_data),
                                     [added_at |-> DateTime(t), access_count |-> 1,
                                      updated_at |-> DateTime(t)]))

\* update_one({"asin": asin}, {"$set": update_data, "$setOnInsert": {...}}, upsert=True)
upsert_book_to_db(store, book_data, t) ==
    IF book_data = EmptyDict \/ "asin" \notin DOMAIN book_data THEN store
    ELSE LET update_data ==
                 DictSet(DictPop(DictPop(book_data, "added_at"), "access_count"),
                         "updated_at", DateTime(t))
             asin == book_data["asin"]
         IN  IF asin \in DOMAIN store
             THEN DictSet(store, asin, DictUpdate(store[asin], update_data))
             ELSE DictSet(store, asin,
                          DictUpdate(DictUpdate([asin |-> asin], update_data),
                                     [added_at |-> DateTime(t), access_count |-> 1]))

----------------------------------------------------------------------------
(* Initial state: empty collections, empty Redis, no saved settings *)

NoConfig == [k \in {} |-> 0]

NoCall == [op |-> "none"]

InitBase ==
    /\ books = EmptyDict
    /\ bookCache = EmptyDict
    /\ searchCache = EmptyDict
    /\ geoCache = EmptyDict
    /\ provider_stats = <<>>
    /\ logs = <<>>
    /\ unified = {}
    /\ lists = EmptyDict
    /\ settings = NoConfig
    /\ now = 0
    /\ nreq = 0
    /\ background = <<>>
    /\ origin = EmptyDict
    /\ last = NoCall

\* CACHE_TTL, in clock ticks (one tick is half a day)
CACHE_TTL == 2

\* Redis keeps a key until its time to live has run out
live(store, t) == [k \in {x \in DOMAIN store : t < store[x].expires} |-> store[k]]

\* time passes between two handler calls; Redis drops the keys that ran out
Tick ==
    /\ now < MaxClock
    /\ now' = now + 1
    /\ bookCache' = live(bookCache, now + 1)
    /\ searchCache' = live(searchCache, now + 1)
    /\ geoCache' = live(geoCache, now + 1)
    /\ UNCHANGED <<books, provider_stats, logs, unified, lists, settings, nreq,
                   upstream, background, origin, last>>

----------------------------------------------------------------------------
(* Specification SpecUpsert: upsert_book_to_db called directly with any record *)

T_Dune == <<"D", "u", "n", "e">>
T_Emma == <<"E", "m", "m", "a">>

WithOptional(S, k, V) == S \cup {DictSet(d, k, v) : d \in S, v \in V}

BookInputs ==
    LET base == {[asin |-> a, title |-> t] : a \in {"X", "Y"}, t \in {T_Dune, T_Emma}}
        r == WithOptional(base, "rating", {4})
        c == WithOptional(r, "access_count", {0, 5})
    IN  WithOptional(c, "added_at", {IsoString(0)}) \cup {EmptyDict, [title |-> T_Dune]}

UpsertCall(book_data) ==
    /\ books' = upsert_book_to_db(books, book_data, now)
    /\ last' = [op |-> "upsert", book_data |-> book_data,
                existed |-> ("asin" \in DOMAIN book_data /\ book_data["asin"] \in DOMAIN books)]
    /\ UNCHANGED <<bookCache, searchCache, geoCache, provider_stats, logs, unified,
                   lists, settings, now, nreq, upstream, background, origin>>

QuietUpstream == [p \in {} |-> 0]

InitUpsert == InitBase /\ upstream = QuietUpstream

NextUpsert ==
    \/ \E book_data \in BookInputs : UpsertCall(book_data)
    \/ Tick

SpecUpsert == InitUpsert /\ [][NextUpsert]_vars

\* C1: for an entry already in the durable store, a later upsert with the same
\* asin keeps the stored added_at, never lowers the stored access_count, and
\* replaces every content field the incoming record carries (whatever added_at
\* and access_count the incoming record has).
C1_UpsertPreservesStats ==
    [][\A a \in DOMAIN books :
         (last'.op = "upsert" /\ DictGet(last'.book_data, "asin", "") = a) =>
            /\ a \in DOMAIN books'
            /\ books'[a].added_at = books[a].added_at
            /\ books'[a].access_count >= books[a].access_count
            /\ \A k \in DOMAIN last'.book_data \ {"added_at", "access_count"} :
                   books'[a][k] = last'.book_data[k]]_vars

\* an existing entry was re-ingested by a record carrying a lower access_count
\* and another added_at, at a later time than its creation
C1_Witness ==
    /\ last.op = "upsert"
    /\ last.existed
    /\ DictGet(last.book_data, "access_count", 1) = 0
    /\ "added_at" \in DOMAIN last.book_data
    /\ books[last.book_data.asin].updated_at # books[last.book_data.asin].added_at
    /\ books[last.book_data.asin].title = last.book_data.title

----------------------------------------------------------------------------
(* The unification engine: services/unifier.py *)

NoEntity == [id |-> 0]

\* database helper imported by the unifier: the Unified Entity that records
\* {provider, id} among its relations, if any
find_unified_by_relation(U, provider, pid) ==
    LET hits == {e \in U : [provider |-> provider, id |-> pid] \in e.relations}
    IN  IF hits = {} THEN NoEntity ELSE CHOOSE e \in hits : TRUE

\* database helper imported by the unifier: builds the entity that is persisted,
\* with a fresh identifier and the given relations
create_unified_book(U, title, authors, relations) ==
    [id |-> Cardinality(U) + 1, title |-> title, authors |-> authors,
     relations |-> Range(relations)]

_make_slug(text) == IF ~Truthy(text) THEN <<>> ELSE SelectSeq(lower(text), isalnum)

S_unknown == <<"u", "n", "k", "n", "o", "w", "n">>
S_isbn == <<"i", "s", "b", "n", ":">>

\* the isbn test of unifier.py line 58
strong_isbn(book) == "isbn" \in DOMAIN book /\ Truthy(book["isbn"]) /\ Len(book["isbn"]) > 9

title_author_key(book) ==
    LET title_slug == _make_slug(DictGet(book, "title", <<>>))
        auths == DictGet(book, "authors", <<>>)
        author_slug == IF auths # <<>> THEN _make_slug(auths[1]) ELSE S_unknown
    IN  title_slug \o <<"|">> \o author_slug

match_key_title_only(book) == title_author_key(book)

match_key(book) ==
    IF strong_isbn(book) THEN S_isbn \o book["isbn"] ELSE title_author_key(book)

priority(provider) ==
    CASE provider = "Audible" -> 10
      [] provider = "Hardcover" -> 8
      [] provider = "Penguin Random House" -> 6
      [] provider = "iTunes" -> 5
      [] provider = "Google Books" -> 4
      [] provider = "Goodreads" -> 2
      [] OTHER -> 1

book_priority(b) == priority(DictGet(b, "provider", "<None>"))

\* one step of a stable descending sort: x goes after every element that does
\* not have a lower priority
RECURSIVE insert_by_priority(_, _)
insert_by_priority(x, sorted) ==
    IF sorted = <<>> THEN <<x>>
    ELSE IF book_priority(Head(sorted)) >= book_priority(x)
         THEN <<Head(sorted)>> \o insert_by_priority(x, Tail(sorted))
         ELSE <<x>> \o sorted

RECURSIVE sort_by_priority(_)
sort_by_priority(sources) ==
    IF sources = <<>> THEN <<>>
    ELSE insert_by_priority(sources[Len(sources)],
                            sort_by_priority(SubSeq(sources, 1, Len(sources) - 1)))

\* a merge that takes the first source as it came, without the sort of line 108
_merge_sources_unsorted(sources, master_record) ==
    LET primary == sources[1]
        all_providers == {s["provider"] : s \in {x \in Range(sources) : "provider" \in DOMAIN x}}
    IN  DictSet(DictSet(primary, "unified_id", master_record.id),
                "available_providers", all_providers)

_merge_sources(sources, master_record) ==
    LET sorted == sort_by_priority(sources)
        primary == sorted[1]
        all_providers == {s["provider"] : s \in {x \in Range(sorted) : "provider" \in DOMAIN x}}
    IN  DictSet(DictSet(primary, "unified_id", master_record.id),
                "available_providers", all_providers)

\* the keys of an insertion-ordered dict built by scanning ks
RECURSIVE first_seen(_)
first_seen(ks) ==
    IF ks = <<>> THEN <<>>
    ELSE LET rest == first_seen(SubSeq(ks, 1, Len(ks) - 1))
             k == ks[Len(ks)]
         IN  IF k \in Range(rest) THEN rest ELSE Append(rest, k)

flatten(results_list) ==
    Concat([i \in DOMAIN results_list |-> results_list[i]])

resolve_none(U, book) == NoEntity

\* step 2 of unify_search_results: the entity a candidate already belongs to
resolve(U, book) ==
    find_unified_by_relation(U, DictGet(book, "provider", "<None>"), DictGet(book, "asin", "<None>"))

\* step 4, new groups: entities are created one after another
RECURSIVE create_groups(_, _)
create_groups(U, groups) ==
    IF groups = <<>> THEN [unified |-> U, out |-> <<>>]
    ELSE LET group == Head(groups)
             primary == group[1]
             relations == [i \in DOMAIN group |->
                             [provider |-> DictGet(group[i], "provider", "<None>"),
                              id |-> DictGet(group[i], "asin", "<None>")]]
             new_master == create_unified_book(U, DictGet(primary, "title", None),
                                               DictGet(primary, "authors", <<>>), relations)
             rest == create_groups(U \cup {new_master}, Tail(groups))
         IN  [unified |-> rest.unified,
              out |-> <<_merge_sources(group, new_master)>> \o rest.out]

\* lines 22-39 and 69-71: the records of the candidates that resolve to an
\* entity of U, one per entity, in the order the entities were first seen
db_matches(all_books, U) ==
    LET IsResolved(b) == resolve(U, b) # NoEntity
        assigned == SelectSeq(all_books, IsResolved)
        uids == first_seen([i \in DOMAIN assigned |-> resolve(U, assigned[i]).id])
    IN  [i \in DOMAIN uids |->
            LET InGroup(b) == resolve(U, b).id = uids[i]
                master == CHOOSE e \in U : e.id = uids[i]
            IN  _merge_sources(SelectSeq(assigned, InGroup), master)]

\* lines 22-63: the candidates that resolve to no entity of U, grouped by
\* match key, in the order the keys were first seen
potential_groups(all_books, U) ==
    LET IsUnassigned(b) == resolve(U, b) = NoEntity
        unassigned == SelectSeq(all_books, IsUnassigned)
        keys == first_seen([i \in DOMAIN unassigned |-> match_key(unassigned[i])])
    IN  [i \in DOMAIN keys |->
            LET InGroup(b) == match_key(b) = keys[i]
            IN  SelectSeq(unassigned, InGroup)]

\* unify_search_results against the entity collection U:
\* the returned list and the collection afterwards
unify_search_results(results_list, U) ==
    LET all_books == flatten(results_list)
        db_out == db_matches(all_books, U)
        created == create_groups(U, potential_groups(all_books, U))
    IN  IF all_books = <<>> THEN [unified |-> U, out |-> <<>>]
        ELSE [unified |-> created.unified, out |-> db_out \o created.out]

----------------------------------------------------------------------------
(* Specification SpecUnify: unify_search_results called on candidate lists *)
(* as search_audiobook passes them (one list, no asin twice)               *)

A_FH == <<"F", "H">>
A_JA == <<"J", "A">>
T_dune_ == <<"d", "u", "n", "e", "!">>
I_10 == <<"0", "4", "4", "1", "0", "1", "3", "5", "9", "3">>
I_9 == <<"4", "4", "1", "0", "1", "3", "5", "9", "3">>

CandidatePool ==
    { [provider |-> "Audible", asin |-> "X", title |-> T_Dune, authors |-> <<A_FH>>],
      [provider |-> "iTunes", asin |-> "Z", title |-> T_dune_, authors |-> <<A_FH>>],
      [provider |-> "Google Books", asin |-> "Y", title |-> T_Emma, authors |-> <<A_JA>>,
       isbn |-> I_10],
      [provider |-> "Hardcover", asin |-> "Z", title |-> T_Dune, authors |-> <<A_FH>>,
       isbn |-> I_10],
      [provider |-> "Goodreads", asin |-> "Y", title |-> T_Dune, authors |-> <<A_FH>>,
       isbn |-> I_9],
      [provider |-> "iTunes", asin |-> "X", title |-> T_Dune, authors |-> <<A_FH>>],
      [provider |-> "Penguin Random House", asin |-> "Y", title |-> T_Dune,
       authors |-> <<A_FH>>] }

distinct_asins(cands) ==
    \A i, j \in DOMAIN cands : i # j => cands[i]["asin"] # cands[j]["asin"]

CandidateLists ==
    {cands \in UNION {[1..n -> CandidatePool] : n \in 0..MaxCandidates} : distinct_asins(cands)}

UnifyCall(cands) ==
    /\ nreq < MaxRequests
    /\ nreq' = nreq + 1
    /\ LET r == unify_search_results(<<cands>>, unified)
       IN  /\ unified' = r.unified
           /\ last' = [op |-> "unify", cands |-> cands, out |-> r.out,
                       before |-> unified,
                       repeat |-> (last.op = "unify" /\ last.cands = cands)]
    /\ UNCHANGED <<books, bookCache, searchCache, geoCache, provider_stats, logs,
                   lists, settings, now, upstream, background, origin>>

InitUnify == InitBase /\ upstream = QuietUpstream

NextUnify == \E cands \in CandidateLists : UnifyCall(cands)

SpecUnify == InitUnify /\ [][NextUnify]_vars

relation_of(b) == [provider |-> b["provider"], id |-> b["asin"]]

\* C3: every {provider, id} pair is a relation of at most one Unified Entity,
\* and unifying the same candidate list again creates no further entity.
C3_PairInOneEntity ==
    /\ \A e1, e2 \in unified : e1 # e2 => e1.relations \cap e2.relations = {}
    /\ (last.op = "unify" /\ last.repeat) => unified = last.before

\* the same non-empty list was unified twice, and some earlier entity holds
\* a relation of a candidate that was offered again together with a new one
C3_Witness ==
    /\ last.op = "unify"
    /\ last.repeat
    /\ Len(last.cands) >= 2
    /\ Cardinality(unified) >= 2

\* C4: an unresolved candidate with a strong identifier (isbn of 10 or more
\* characters) shares its Unified Entity with exactly the unresolved candidates
\* of the call that carry the same identifier: same identifier merges whatever
\* the titles and authors, and an equal title/author key alone never merges.
C4_StrongIdentifierGroups ==
    last.op = "unify" =>
        \A i, j \in DOMAIN last.cands :
            LET b1 == last.cands[i]
                b2 == last.cands[j]
            IN  (/\ resolve(last.before, b1) = NoEntity
                 /\ resolve(last.before, b2) = NoEntity
                 /\ strong_isbn(b1))
                => ((resolve(unified, b1) = resolve(unified, b2))
                      <=> (strong_isbn(b2) /\ b2["isbn"] = b1["isbn"]))

\* two unresolved candidates with the same strong isbn and different titles were
\* merged, next to an unresolved one with the title of one of them that was not
C4_Witness ==
    /\ last.op = "unify"
    /\ \E i, j, k \in DOMAIN last.cands :
          LET b1 == last.cands[i]
              b2 == last.cands[j]
              b3 == last.cands[k]
          IN  /\ i # j
              /\ resolve(last.before, b1) = NoEntity
              /\ resolve(last.before, b2) = NoEntity
              /\ resolve(last.before, b3) = NoEntity
              /\ strong_isbn(b1) /\ strong_isbn(b2) /\ b1["isbn"] = b2["isbn"]
              /\ title_author_key(b1) # title_author_key(b2)
              /\ resolve(unified, b1) = resolve(unified, b2)
              /\ ~strong_isbn(b3)
              /\ title_author_key(b3) = title_author_key(b2)
              /\ resolve(unified, b3) # resolve(unified, b2)

----------------------------------------------------------------------------
(* The ephemeral cache: get_cache / set_cache *)

\* json.dumps(data, default=json_serial) followed by json.loads: a datetime
\* comes back as its ISO string, every other value as itself
json_book(d) ==
    [k \in DOMAIN d |->
        IF k \in {"added_at", "updated_at"} /\ d[k][1] = "datetime"
        THEN IsoString(d[k][2]) ELSE d[k]]

json_list(bs) == [i \in DOMAIN bs |-> json_book(bs[i])]

\* get_cache: None when the key is absent, else the decoded value; the result
\* is paired with its truth value, as the callers test it ("if cached := ...")
get_cache(store, key) ==
    IF key \in DOMAIN store
    THEN [value |-> store[key].data, truthy |-> store[key].data # <<>>]
    ELSE [value |-> None, truthy |-> FALSE]

\* set_cache(key, data) at time t with the default expire=CACHE_TTL; data is
\* the value after json.dumps
set_cache(store, key, data, t) == DictSet(store, key, [data |-> data, expires |-> t + CACHE_TTL])

----------------------------------------------------------------------------
(* Settings *)

SearchLimit == 5

ScrapeLimitPages == 100

DEFAULT_SETTINGS ==
    [providers |-> [audible |-> TRUE, itunes |-> TRUE, goodreads |-> TRUE, prh |-> TRUE],
     search_limit |-> SearchLimit, scrape_limit_pages |-> ScrapeLimitPages]

get_system_settings == IF settings # NoConfig THEN settings ELSE DEFAULT_SETTINGS

----------------------------------------------------------------------------
(* String helpers of the search handler *)

RECURSIVE split(_, _)
split(s, sep) ==
    IF \A i \in DOMAIN s : s[i] # sep THEN <<s>>
    ELSE LET i == CHOOSE j \in DOMAIN s : s[j] = sep /\ \A k \in 1..(j - 1) : s[k] # sep
         IN  <<SubSeq(s, 1, i - 1)>> \o split(SubSeq(s, i + 1, Len(s)), sep)

RECURSIVE strip(_)
strip(s) ==
    IF s = <<>> THEN s
    ELSE IF Head(s) = " " THEN strip(Tail(s))
    ELSE IF s[Len(s)] = " " THEN strip(SubSeq(s, 1, Len(s) - 1))
    ELSE s

\* "sub in s"
contains(s, sub) ==
    \E i \in 1..(Len(s) - Len(sub) + 1) : SubSeq(s, i, i + Len(sub) - 1) = sub

\* str() of a small non-negative int
str_int(n) ==
    LET digit(d) == <<"0", "1", "2", "3", "4", "5", "6", "7", "8", "9">>[d + 1]
    IN  IF n < 10 THEN <<digit(n)>> ELSE <<digit(n \div 10), digit(n % 10)>>

\* str() of an Optional[float] with an integral value
str_rate(r) == IF r = NoRate THEN Str(None) ELSE str_int(r) \o <<".", "0">>

S_q == <<"q", "=">>
S_auth == <<":", "a", "u", "t", "h", "=">>
S_isbnp == <<":", "i", "s", "b", "n", "=">>
S_prov == <<":", "p", "r", "o", "v", "=">>
S_rate == <<":", "r", "a", "t", "e", "=">>
S_lim == <<":", "l", "i", "m", "=">>

cache_str(req, limit) ==
    S_q \o Str(req.q) \o S_auth \o Str(req.author) \o S_isbnp \o Str(req.isbn)
        \o S_prov \o Str(req.providers) \o S_rate \o str_rate(req.min_rating)
        \o S_lim \o str_int(limit)

clean_key(req, limit) == replace(replace(lower(cache_str(req, limit)), " ", <<>>), ",", <<"_">>)

----------------------------------------------------------------------------
(* Provider adapters as seen by the orchestrator *)

\* the records the two modelled catalogues can return
a1 == [asin |-> "X", title |-> T_Dune, authors |-> <<A_FH>>, rating |-> 5, provider |-> "Audible"]
a2 == [asin |-> "Y", title |-> T_Emma, authors |-> <<A_JA>>, rating |-> 3, provider |-> "Audible"]
i1 == [asin |-> "X", title |-> T_Dune, authors |-> <<A_FH>>, provider |-> "iTunes"]
i2 == [asin |-> "Z", title |-> T_dune_, authors |-> <<A_FH>>, provider |-> "iTunes"]

Catalog(p) ==
    CASE p = "Audible" -> <<a1, a2>>
      [] p = "iTunes" -> <<i1, i2>>
      [] OTHER -> <<>>

\* the answers of one adapter call: the first records of the provider's
\* ranking, at most MaxResults of them, an empty list after a failure the
\* adapter swallowed, or an exception that escapes the adapter
Answers(p) ==
    LET c == Catalog(p)
        short == {SubSeq(c, 1, n) : n \in {k \in 0..MaxResults : k <= Len(c)}}
    IN  {[kind |-> "ok", items |-> l] : l \in short}
          \cup {[kind |-> "swallowed", items |-> <<>>]}
          \cup (IF p = "Audible" THEN {[kind |-> "raised", items |-> <<>>]} ELSE {})

Worlds == [{"Audible", "iTunes"} -> UNION {Answers(p) : p \in {"Audible", "iTunes"}}]
              \cap [Audible : Answers("Audible"), iTunes : Answers("iTunes")]

answer(p) == IF p \in DOMAIN upstream THEN upstream[p] ELSE [kind |-> "ok", items |-> <<>>]

\* the result count of the finally block: the length of a list, the length of
\* the second member of a tuple, 1 for any other truthy value
result_count(ans) ==
    IF ans.kind = "raised" THEN 0
    ELSE IF ans.kind = "object" THEN 1
    ELSE Len(ans.items)

\* a benchmark_call without its except clause: the exception of the adapter
\* leaves the call, after the finally block has written the stats record
benchmark_call_propagate(request_id, provider_name, ans) ==
    [results |-> ans.items, raised |-> ans.kind = "raised",
     stat |-> [request_id |-> request_id, provider |-> provider_name,
               result_count |-> result_count(ans),
               status |-> "success"]]

\* benchmark_call: the results handed back, whether an exception leaves the
\* call (never: it is caught), and the provider-stats record written
benchmark_call(request_id, provider_name, ans) ==
    [results |-> IF ans.kind = "raised" THEN <<>> ELSE ans.items,
     raised |-> FALSE,
     stat |-> [request_id |-> request_id, provider |-> provider_name,
               result_count |-> result_count(ans),
               status |-> IF ans.kind = "raised" THEN "error" ELSE "success"]]

----------------------------------------------------------------------------
(* search_audiobook *)

P_audible == <<"a", "u", "d", "i", "b", "l", "e">>
P_itunes == <<"i", "t", "u", "n", "e", "s">>
P_goodreads == <<"g", "o", "o", "d", "r", "e", "a", "d", "s">>
P_prh == <<"p", "r", "h">>
P_google == <<"g", "o", "o", "g", "l", "e">>
P_hardcover == <<"h", "a", "r", "d", "c", "o", "v", "e", "r">>

target_list(providers) ==
    LET parts == split(providers, ",")
    IN  [i \in DOMAIN parts |-> strip(lower(parts[i]))]

\* lines 247-261: which adapters are used
use(req, config, flag, name, default) ==
    IF Truthy(req.providers) THEN name \in Range(target_list(req.providers))
    ELSE DictGet(DictGet(config, "providers", EmptyDict), flag, default)

\* lines 263-309: the provider tasks, in the order they are appended
started_tasks(req, config) ==
    (IF use(req, config, "audible", P_audible, TRUE) THEN <<"Audible">> ELSE <<>>)
    \o (IF use(req, config, "itunes", P_itunes, TRUE) THEN <<"iTunes">> ELSE <<>>)
    \o (IF use(req, config, "goodreads", P_goodreads, TRUE) THEN <<"Goodreads">> ELSE <<>>)
    \o (IF use(req, config, "prh", P_prh, TRUE)
          /\ (Truthy(req.isbn) \/ Truthy(req.q) \/ Truthy(req.author))
        THEN <<"PRH">> ELSE <<>>)
    \o (IF use(req, config, "google", P_google, FALSE)
          /\ "google_books_api_key" \in DOMAIN config
        THEN <<"Google Books">> ELSE <<>>)
    \o (IF use(req, config, "hardcover", P_hardcover, FALSE)
          /\ "hardcover_api_key" \in DOMAIN config
        THEN <<"Hardcover">> ELSE <<>>)

_init_stats(book_data, t) ==
    LET c == IF "cached_at" \in DOMAIN book_data THEN book_data
             ELSE DictSet(book_data, "cached_at", IsoString(t))
        l == IF "last_accessed" \in DOMAIN c THEN c ELSE DictSet(c, "last_accessed", IsoString(t))
    IN  IF "access_count" \in DOMAIN l THEN l ELSE DictSet(l, "access_count", 1)

RECURSIVE filter_results(_, _, _)

\* the rating floor alone, every record of every provider kept
filter_no_dedup(full_results, min_rating, seen_ids) ==
    SelectSeq(full_results,
              LAMBDA book : ~(min_rating # NoRate /\ min_rating # 0
                              /\ ("rating" \notin DOMAIN book \/ book["rating"] < min_rating)))

\* lines 318-327: rating floor, then first-seen-wins on the asin
filter_results(full_results, min_rating, seen_ids) ==
    IF full_results = <<>> THEN <<>>
    ELSE LET book == Head(full_results)
             rest == Tail(full_results)
         IN  IF min_rating # NoRate /\ min_rating # 0
                  /\ ("rating" \notin DOMAIN book \/ book["rating"] < min_rating)
             THEN filter_results(rest, min_rating, seen_ids)
             ELSE IF book["asin"] \in seen_ids
             THEN filter_results(rest, min_rating, seen_ids)
             ELSE <<book>> \o filter_results(rest, min_rating, seen_ids \cup {book["asin"]})

RECURSIVE join(_, _)
join(sep, ss) ==
    IF ss = <<>> THEN <<>>
    ELSE IF Len(ss) = 1 THEN ss[1]
    ELSE ss[1] \o sep \o join(sep, Tail(ss))

transform_to_abs_format(book) ==
    [id |-> DictGet(book, "asin", "<None>"),
     asin |-> DictGet(book, "asin", "<None>"),
     isbn |-> DictGet(book, "asin", "<None>"),
     title |-> DictGet(book, "title", None),
     author |-> join(<<",", " ">>, DictGet(book, "authors", <<>>)),
     provider |-> DictGet(book, "provider", "<None>"),
     rating |-> DictGet(book, "rating", NoRate)]

abs_list(bs) == [i \in DOMAIN bs |-> transform_to_abs_format(bs[i])]

RECURSIVE persist_all(_, _, _)
persist_all(store, bs, t) ==
    IF bs = <<>> THEN store ELSE persist_all(upsert_book_to_db(store, Head(bs), t), Tail(bs), t)

RECURSIVE cache_all(_, _, _)
cache_all(store, bs, t) ==
    IF bs = <<>> THEN store
    ELSE cache_all(set_cache(store, Head(bs)["asin"], json_book(Head(bs)), t), Tail(bs), t)

log_record(action, target, details, client) ==
    [action |-> action, target |-> target, details |-> details,
     device_id |-> client.device_id, country |-> client.country]

\* the 30 days of the geo entries (ex=2592000), in clock ticks
GEO_TTL == 60

\* get_device_hash on the addresses of the model: a fixed-length opaque token
get_device_hash(ip) ==
    IF ip \in {"", "Unknown", "127.0.0.1"} THEN "Localhost"
    ELSE IF ip = "9.9.9.9" THEN "e3b0c44298fc" ELSE "a7ffc6f8bf1e"

\* whether process_client_info asks the address lookup service
needs_lookup(ip) ==
    /\ ip \notin {"127.0.0.1", "::1", "Unknown"}
    /\ ~(ip \in DOMAIN geoCache /\ geoCache[ip].data # "")

\* process_client_info: device hash, country and the geo cache afterwards;
\* geo is what the address lookup answers when it is needed
process_client_info(ip, geo) ==
    IF ip \in {"127.0.0.1", "::1", "Unknown"}
    THEN [device_id |-> "Localhost", country |-> "Local", geoCache |-> geoCache]
    ELSE IF ip \in DOMAIN geoCache /\ geoCache[ip].data # ""
    THEN [device_id |-> get_device_hash(ip), country |-> geoCache[ip].data,
          geoCache |-> geoCache]
    ELSE [device_id |-> get_device_hash(ip), country |-> geo,
          geoCache |-> DictSet(geoCache, ip, [data |-> geo, expires |-> now + GEO_TTL])]

Q_Dune == <<"D", "u", "n", "e">>
Q_providers == <<"i", "T", "u", "n", "e", "s", ",", " ", "A", "u", "d", "i", "b", "l", "e">>

\* the requests of the model: (q, author, isbn, providers, min_rating) and the
\* client address
SearchRequests ==
    { [q |-> None, author |-> None, isbn |-> None, providers |-> None,
       min_rating |-> NoRate, ip |-> "9.9.9.9"],
      [q |-> Q_Dune, author |-> None, isbn |-> None, providers |-> None,
       min_rating |-> NoRate, ip |-> "127.0.0.1"],
      [q |-> None, author |-> A_FH, isbn |-> None, providers |-> Q_providers,
       min_rating |-> 4, ip |-> "9.9.9.9"] }

GeoAnswers == {"US", "Unknown"}

SearchLimits == {SearchLimit}

\* the two strings of lines 234-235, tabulated for the requests of the model
cache_strings ==
    [req \in SearchRequests, limit \in SearchLimits |->
        [cache_str |-> cache_str(req, limit), clean_key |-> clean_key(req, limit)]]

\* a handler without the check of lines 227-228
no_criteria_never(req) == FALSE

\* lines 227-228: the request carries none of q, author, isbn
no_criteria(req) == ~Truthy(req.q) /\ ~Truthy(req.author) /\ ~Truthy(req.isbn)

\* what can go wrong in the store during one search: nothing, or the first
\* books_collection.update_one raises
SearchFaults == {"none", "upsert"}

\* lines 243-343 up to the writes: task answers, stats records, filtered list
search_fanout(req, config, req_id, t) ==
    LET tasks == started_tasks(req, config)
        calls == [i \in DOMAIN tasks |-> benchmark_call(req_id, tasks[i], answer(tasks[i]))]
        results_list == [i \in DOMAIN calls |-> calls[i].results]
        full_results == flatten(results_list)
        kept == filter_results(full_results, req.min_rating, {})
    IN  [tasks |-> tasks,
         raised |-> \E i \in DOMAIN calls : calls[i].raised,
         stats |-> [i \in DOMAIN calls |-> calls[i].stat],
         filtered_results |-> [i \in DOMAIN kept |-> _init_stats(kept[i], t)]]

Search(req, fault) ==
    /\ nreq < MaxRequests
    /\ nreq' = nreq + 1
    /\ \E geo \in (IF needs_lookup(req.ip) THEN GeoAnswers ELSE {"US"}) :
        LET t == now
            client == process_client_info(req.ip, geo)
            config == get_system_settings
            limit == DictGet(config, "search_limit", 5)
            target == cache_strings[req, limit].cache_str
            key == cache_strings[req, limit].clean_key
            cached == get_cache(searchCache, key)
            f == search_fanout(req, config, nreq + 1, t)
            u == unify_search_results(<<f.filtered_results>>, unified)
            base == [op |-> "search", req |-> req, key |-> key,
                     live |-> (key \in DOMAIN searchCache), fault |-> fault]
        IN
        /\ geoCache' = client.geoCache
        /\ UNCHANGED <<lists, settings, now, upstream, background>>
        /\ IF no_criteria(req)
           THEN \* 400 Must provide 'q', 'author', or 'isbn'
                /\ fault = "none"
                /\ last' = base @@ [hit |-> FALSE, outcome |-> "error400", result |-> <<>>,
                                    tasks |-> <<>>, upserts |-> <<>>]
                /\ UNCHANGED <<books, bookCache, searchCache, provider_stats, logs,
                               unified, origin>>
           ELSE IF cached.truthy
           THEN \* cache hit
                /\ fault = "none"
                /\ logs' = Append(logs, log_record("search", target, "Cache Hit", client))
                /\ last' = base @@ [hit |-> TRUE, outcome |-> "list",
                                    result |-> abs_list(cached.value),
                                    tasks |-> <<>>, upserts |-> <<>>]
                /\ UNCHANGED <<books, bookCache, searchCache, provider_stats, unified, origin>>
           ELSE \* cache miss: fan out, persist, cache, log, unify
                /\ fault = "upsert" => f.filtered_results # <<>>
                /\ provider_stats' = provider_stats \o f.stats
                /\ IF fault = "upsert" \/ f.raised
                   THEN /\ last' = base @@ [hit |-> FALSE, outcome |-> "error500",
                                            result |-> <<>>, tasks |-> f.tasks,
                                            upserts |-> <<>>]
                        /\ UNCHANGED <<books, bookCache, searchCache, logs, unified, origin>>
                   ELSE /\ books' = persist_all(books, f.filtered_results, t)
                        /\ bookCache' = cache_all(bookCache, f.filtered_results, t)
                        /\ searchCache' = set_cache(searchCache, key, json_list(f.filtered_results), t)
                        /\ logs' = Append(logs, log_record("search", target,
                                                           "Multi-Provider Query", client))
                        /\ unified' = u.unified
                        /\ last' = base @@ [hit |-> FALSE, outcome |-> "list",
                                            result |-> abs_list(u.out), tasks |-> f.tasks,
                                            upserts |-> [i \in DOMAIN f.filtered_results |->
                                                            f.filtered_results[i]["asin"]]]
                        /\ origin' = DictSet(origin, key,
                                             [req |-> req, outcome |-> "list",
                                              result |-> abs_list(u.out),
                                              tasks |-> f.tasks])

Init == InitBase /\ upstream \in Worlds

Next ==
    \/ \E req \in SearchRequests, fault \in SearchFaults : Search(req, fault)
    \/ Tick

Spec == Init /\ [][Next]_vars

----------------------------------------------------------------------------
(* Properties of search_audiobook, specification Spec *)

\* C2: re-issuing the identical search while its search-cache entry is live
\* returns exactly the list the first call returned and starts no provider
\* task (so writes no provider-stats record), empty first results included.
C2_RepeatedSearchReplaysFirstResult ==
    (/\ last.op = "search"
     /\ last.live
     /\ last.fault = "none"
     /\ last.key \in DOMAIN origin
     /\ origin[last.key].req = last.req
     /\ origin[last.key].outcome = "list")
    => (/\ last.hit
        /\ last.tasks = <<>>
        /\ last.outcome = "list"
        /\ last.result = origin[last.key].result)

\* what the tasks other than the failing ones brought back
others_results(tasks) ==
    flatten([i \in DOMAIN tasks |->
                IF answer(tasks[i]).kind = "ok" THEN answer(tasks[i]).items ELSE <<>>])

\* the list a cache-miss search returns when exactly full_results came back
expected_result(full_results, min_rating, U, t) ==
    LET kept == filter_results(full_results, min_rating, {})
        filtered_results == [i \in DOMAIN kept |-> _init_stats(kept[i], t)]
    IN  abs_list(unify_search_results(<<filtered_results>>, U).out)

\* C5: in a cache-miss search (no store fault) in which a provider task
\* raises or fails, the search still ends with a list, and that list is the
\* one built from the results of the other tasks alone: the failing task
\* contributes nothing and does not turn the search into an error.
C5_FailedTaskDegrades ==
    [][(/\ nreq' = nreq + 1
        /\ last'.op = "search"
        /\ last'.outcome # "error400"
        /\ ~last'.hit
        /\ last'.fault = "none"
        /\ \E i \in DOMAIN last'.tasks : answer(last'.tasks[i]).kind # "ok")
       => (/\ last'.outcome = "list"
           /\ last'.result = expected_result(others_results(last'.tasks),
                                             last'.req.min_rating, unified, now))]_vars

C5_Witness ==
    /\ last.op = "search"
    /\ last.outcome = "list"
    /\ ~last.hit
    /\ Len(last.tasks) >= 2
    /\ "Audible" \in Range(last.tasks)
    /\ answer("Audible").kind = "raised"
    /\ last.result # <<>>

\* C6: every provider failure during a search (swallowed inside the adapter
\* or escaping it) has a provider-stats record with status "error" and an
\* empty contribution.
C6_FailureRecordedAsError ==
    \A i \in DOMAIN provider_stats :
        answer(provider_stats[i].provider).kind # "ok"
            => (/\ provider_stats[i].status = "error"
                /\ provider_stats[i].result_count = 0)

\* the ids returned by any provider task of the call
returned_ids(tasks) ==
    {b["asin"] : b \in Range(others_results(tasks))}

\* the ids of the returned records that pass the rating floor of the request
kept_ids(tasks, min_rating) ==
    {b["asin"] : b \in {x \in Range(others_results(tasks)) :
                        ~(min_rating # NoRate /\ min_rating # 0
                          /\ ("rating" \notin DOMAIN x \/ x["rating"] < min_rating))}}

\* C7 as stated: a completed cache-miss search returns exactly one record per
\* distinct id returned by any provider, and upserts once per distinct id.
C7_OneRecordPerDistinctId ==
    (last.op = "search" /\ last.outcome = "list" /\ ~last.hit)
    => LET ids == returned_ids(last.tasks)
       IN  /\ {last.result[i].id : i \in DOMAIN last.result} = ids
           /\ Len(last.result) = Cardinality(ids)
           /\ Range(last.upserts) = ids
           /\ Len(last.upserts) = Cardinality(ids)

\* C7 amended: a completed cache-miss search upserts exactly once per distinct
\* id among the returned records that pass the rating floor, and returns one
\* record per Unified Entity those records belong to, each carrying one of
\* those ids.
C7_OneUpsertPerKeptId ==
    (last.op = "search" /\ last.outcome = "list" /\ ~last.hit)
    => LET ids == kept_ids(last.tasks, last.req.min_rating)
           entities == {e \in unified : \E r \in e.relations : r.id \in ids}
       IN  /\ Range(last.upserts) = ids
           /\ Len(last.upserts) = Cardinality(ids)
           /\ {last.result[i].id : i \in DOMAIN last.result} \subseteq ids
           /\ Len(last.result) = Cardinality(entities)
           /\ \A i, j \in DOMAIN last.result :
                 last.result[i].id = last.result[j].id => i = j

C7_Witness ==
    /\ last.op = "search"
    /\ last.outcome = "list"
    /\ ~last.hit
    /\ Len(others_results(last.tasks)) = 4
    /\ Cardinality(returned_ids(last.tasks)) = 3
    /\ Len(last.upserts) = 3
    /\ Len(last.result) = 2

\* C8: once criteria validation passes, a search always ends with a list,
\* never with an error outcome.
C8_SearchNeverErrors ==
    (/\ last.op = "search"
     /\ (Truthy(last.req.q) \/ Truthy(last.req.author) \/ Truthy(last.req.isbn)))
    => last.outcome = "list"

\* C9: a search carrying none of q, author, isbn ends as a bad request, starts
\* no provider task, writes no provider-stats record and leaves the search
\* cache, the book cache and the durable store as they were.
C9_BadRequestRejected ==
    [][(/\ nreq' = nreq + 1
        /\ last'.op = "search"
        /\ ~Truthy(last'.req.q) /\ ~Truthy(last'.req.author) /\ ~Truthy(last'.req.isbn))
       => (/\ last'.outcome = "error400"
           /\ last'.tasks = <<>>
           /\ UNCHANGED <<provider_stats, searchCache, bookCache, books, unified>>)]_vars

C9_Witness ==
    /\ last.op = "search"
    /\ last.outcome = "error400"
    /\ ~Truthy(last.req.q) /\ ~Truthy(last.req.author) /\ ~Truthy(last.req.isbn)
    /\ searchCache # EmptyDict
    /\ provider_stats # <<>>

----------------------------------------------------------------------------
(* List import: execute_list_import and the two import endpoints *)

D_goodreads == <<"g", "o", "o", "d", "r", "e", "a", "d", "s", ".", "c", "o", "m">>
D_audible == <<"a", "u", "d", "i", "b", "l", "e", ".", "c", "o", "m">>
U_goodreads == <<"g", "o", "o", "d", "r", "e", "a", "d", "s", ".", "c", "o", "m", "/", "l", "i", "s", "t", "/", "1">>
U_audible == <<"a", "u", "d", "i", "b", "l", "e", ".", "c", "o", "m", "/", "c", "h", "a", "r", "t", "s">>
U_other == <<"e", "x", "a", "m", "p", "l", "e", ".", "o", "r", "g", "/", "t", "o", "p">>
L_title == <<"B", "e", "s", "t">>

g1 == [asin |-> "G1", title |-> T_Dune, authors |-> <<A_FH>>, provider |-> "Goodreads"]
g2 == [asin |-> "G2", title |-> T_Emma, authors |-> <<A_JA>>, provider |-> "Goodreads"]

\* goodreads.scrape_list_from_url never raises: it returns the tuple
\* (title, books), books being empty when nothing could be scraped
ScrapeAnswers ==
    {[kind |-> "tuple", title |-> L_title, items |-> SubSeq(<<g1, g2>>, 1, n)] :
        n \in {k \in 0..MaxResults : k <= 2}}

\* asyncio.to_thread(audible.scrape_list_from_url, url): the function is a
\* coroutine function, so the thread returns its un-awaited coroutine object
to_thread_coroutine == [kind |-> "object", items |-> <<>>]

\* the document of lines 273-282
imported_doc(name, url, asins, source, t) ==
    [name |-> name, url |-> url, asins |-> asins, count |-> Len(asins),
     type |-> "imported", source |-> source,
     created_at |-> DateTime(t), updated_at |-> DateTime(t)]

\* a save that uses insert_one
save_imported_list_insert(store, name, url, asins, source, t) ==
    Append(store, imported_doc(name, url, asins, source, t))

\* update_one({"url": url}, {"$set": doc}, upsert=True): the first document
\* with that url gets the fields of doc, or doc is inserted
save_imported_list(store, name, url, asins, source, t) ==
    LET doc == imported_doc(name, url, asins, source, t)
        hits == {i \in DOMAIN store : store[i]["url"] = url}
    IN  IF hits = {} THEN Append(store, doc)
        ELSE LET i == CHOOSE j \in hits : \A k \in hits : j <= k
             IN  [store EXCEPT ![i] = DictUpdate(@, doc)]

\* an import that goes on with an empty scrape
no_items_never(items) == FALSE

\* lines 431 and 458: "if not books", "if not asins"
no_items(items) == items = <<>>

\* line 478
chunk_size == 10

\* lines 479-480: range(0, len(asins), chunk_size) and the slices
chunks_of(asins) ==
    [c \in 1..((Len(asins) + chunk_size - 1) \div chunk_size) |->
        SubSeq(asins, (c - 1) * chunk_size + 1,
               IF c * chunk_size < Len(asins) THEN c * chunk_size ELSE Len(asins))]

\* audible.get_product_raw + compile_audible_metadata for one asin
product_answer(asin) ==
    LET found == SelectSeq(Catalog("Audible"), LAMBDA b : b["asin"] = asin)
    IN  IF found = <<>> THEN [kind |-> "ok", items |-> <<>>]
        ELSE [kind |-> "object", items |-> <<found[1]>>]

\* lines 460-476: True when the asin is cached, stored, or fetched and persisted
fetch_and_persist_book(asin, acc, req_id, t) ==
    IF get_cache(acc.bookCache, asin).truthy \/ asin \in DOMAIN acc.books
    THEN [acc EXCEPT !.imported = @ + 1]
    ELSE LET call == benchmark_call(req_id, "Audible", product_answer(asin))
         IN  IF call.results = <<>>
             THEN [acc EXCEPT !.stats = Append(@, call.stat)]
             ELSE LET meta == _init_stats(call.results[1], t)
                  IN  [books |-> upsert_book_to_db(acc.books, meta, t),
                       bookCache |-> set_cache(acc.bookCache, asin, json_book(meta), t),
                       stats |-> Append(acc.stats, call.stat),
                       imported |-> acc.imported + 1]

\* lines 478-485: the members of the list, chunk after chunk
RECURSIVE import_members(_, _, _, _)
import_members(asins, acc, req_id, t) ==
    IF asins = <<>> THEN acc
    ELSE import_members(Tail(asins), fetch_and_persist_book(Head(asins), acc, req_id, t),
                        req_id, t)

\* execute_list_import at time t: whether it raises, the response, the chunks
\* processed, and the collections and the records written up to its return or
\* its exception
execute_list_import(url, client, req_id, t) ==
    LET same == [raised |-> TRUE, stats |-> <<>>, books |-> books,
                 bookCache |-> bookCache, lists |-> lists, logs |-> logs,
                 chunks |-> <<>>, response |-> [status |-> "error"]]
    IN  IF contains(url, D_goodreads)
        THEN LET ans == answer("Goodreads Scraper")
                 call == benchmark_call(req_id, "Goodreads Scraper", ans)
                 scraped == call.results
                 bs == [i \in DOMAIN scraped |-> _init_stats(scraped[i], t)]
                 asins == [i \in DOMAIN bs |-> bs[i]["asin"]]
             IN  IF no_items(scraped)
                 THEN \* "No books found."
                      [same EXCEPT !.stats = <<call.stat>>]
                 ELSE [raised |-> FALSE, stats |-> <<call.stat>>,
                       books |-> persist_all(books, bs, t),
                       bookCache |-> cache_all(bookCache, bs, t),
                       lists |-> save_imported_list(lists, ans.title, url, asins,
                                                    "Goodreads", t),
                       logs |-> Append(logs, log_record("import_list", ans.title,
                                                        Len(bs), client)),
                       chunks |-> <<>>,
                       response |-> [status |-> "success", title |-> ans.title,
                                     count |-> Len(bs)]]
        ELSE \* the Audible branch: the stats record of the scraper call, then
             \* "list_title, asins = <coroutine>" raises TypeError
             LET scraped == to_thread_coroutine
                 call == benchmark_call(req_id, "Audible Scraper", scraped)
             IN  IF scraped.kind # "tuple" \/ no_items(scraped.items)
                 THEN [same EXCEPT !.stats = <<call.stat>>]
                 ELSE LET asins == scraped.items
                          done == import_members(asins,
                                      [books |-> books, bookCache |-> bookCache,
                                       stats |-> <<call.stat>>, imported |-> 0],
                                      req_id, t)
                      IN  [raised |-> FALSE, stats |-> done.stats,
                           books |-> done.books, bookCache |-> done.bookCache,
                           lists |-> save_imported_list(lists, scraped.title, url, asins,
                                                        "Audible", t),
                           logs |-> Append(logs, log_record("import_list", scraped.title,
                                                            done.imported, client)),
                           chunks |-> chunks_of(asins),
                           response |-> [status |-> "success", title |-> scraped.title,
                                         count |-> Len(asins),
                                         imported |-> done.imported]]

ImportUrls == {U_goodreads, U_audible, U_other}

ImportAddress == "9.9.9.9"

\* POST /lists/import
import_audible_list(url) ==
    /\ nreq < MaxRequests
    /\ nreq' = nreq + 1
    /\ \E geo \in (IF needs_lookup(ImportAddress) THEN GeoAnswers ELSE {"US"}) :
        LET client == process_client_info(ImportAddress, geo)
            r == execute_list_import(url, client, nreq + 1, now)
        IN  /\ geoCache' = client.geoCache
            /\ provider_stats' = provider_stats \o r.stats
            /\ books' = r.books
            /\ bookCache' = r.bookCache
            /\ lists' = r.lists
            /\ logs' = r.logs
            /\ last' = [op |-> "import", mode |-> "sync", url |-> url,
                        outcome |-> IF r.raised THEN "error400" ELSE "success",
                        chunks |-> r.chunks, response |-> r.response]
    /\ UNCHANGED <<searchCache, unified, settings, now, upstream, background, origin>>

\* an endpoint that accepts every URL
unsupported_url_never(url) == FALSE

\* lines 513-514: the URL names neither supported list source
unsupported_url(url) == ~contains(url, D_audible) /\ ~contains(url, D_goodreads)

\* POST /lists/import/async
import_audible_list_async(url) ==
    /\ nreq < MaxRequests
    /\ nreq' = nreq + 1
    /\ IF unsupported_url(url)
       THEN /\ last' = [op |-> "import", mode |-> "async", url |-> url,
                        outcome |-> "error400"]
            /\ UNCHANGED <<geoCache, background>>
       ELSE \E geo \in (IF needs_lookup(ImportAddress) THEN GeoAnswers ELSE {"US"}) :
            LET client == process_client_info(ImportAddress, geo)
            IN  /\ geoCache' = client.geoCache
                /\ background' = Append(background,
                                        [url |-> url, client |-> [device_id |-> client.device_id,
                                                                  country |-> client.country],
                                         req_id |-> nreq + 1])
                /\ last' = [op |-> "import", mode |-> "async", url |-> url,
                            outcome |-> "accepted", request_id |-> nreq + 1]
    /\ UNCHANGED <<books, bookCache, searchCache, provider_stats, logs, unified, lists,
                   settings, now, upstream, origin>>

\* a wrapper whose except clause only prints
safe_import_task_no_log ==
    /\ background # <<>>
    /\ \E task \in {Head(background)} :
       \E r \in {execute_list_import(task.url, task.client, task.req_id, now)} :
           /\ provider_stats' = provider_stats \o r.stats
           /\ books' = r.books
           /\ bookCache' = r.bookCache
           /\ lists' = r.lists
           /\ logs' = r.logs
           /\ last' = [op |-> "background", url |-> task.url,
                       outcome |-> IF r.raised THEN "import_error" ELSE "success",
                       chunks |-> r.chunks]
    /\ background' = Tail(background)
    /\ UNCHANGED <<searchCache, geoCache, unified, settings, now, nreq, upstream, origin>>

\* the background task of an accepted import, run after the response
safe_import_task ==
    /\ background # <<>>
    /\ \E task \in {Head(background)} :
       \E r \in {execute_list_import(task.url, task.client, task.req_id, now)} :
           /\ provider_stats' = provider_stats \o r.stats
           /\ books' = r.books
           /\ bookCache' = r.bookCache
           /\ lists' = r.lists
           /\ logs' = IF r.raised
                      THEN Append(logs, log_record("import_error", task.url, "error",
                                                   task.client))
                      ELSE r.logs
           /\ last' = [op |-> "background", url |-> task.url,
                       outcome |-> IF r.raised THEN "import_error" ELSE "success",
                       chunks |-> r.chunks]
    /\ background' = Tail(background)
    /\ UNCHANGED <<searchCache, geoCache, unified, settings, now, nreq, upstream, origin>>

ImportWorlds == {[w \in {"Goodreads Scraper"} |-> a] : a \in ScrapeAnswers}

InitImport == InitBase /\ upstream \in ImportWorlds

NextImport ==
    \/ \E url \in ImportUrls : import_audible_list(url)
    \/ \E url \in ImportUrls : import_audible_list_async(url)
    \/ safe_import_task
    \/ Tick

SpecImport == InitImport /\ [][NextImport]_vars

\* C10: an import request, synchronous or asynchronous, whose URL matches
\* neither supported list source ends as a caller-fault outcome, with no
\* scrape or provider call made (no provider-stats record written), nothing
\* queued and no list saved.
C10_UnsupportedUrlRejected ==
    [][(/\ nreq' = nreq + 1
        /\ last'.op = "import"
        /\ ~contains(last'.url, D_audible)
        /\ ~contains(last'.url, D_goodreads))
       => (/\ last'.outcome = "error400"
           /\ UNCHANGED <<provider_stats, lists, books, bookCache, background>>)]_vars

\* C11: the asynchronous import endpoint, for a URL containing audible.com or
\* goodreads.com, answers "accepted" with a request id while no import work
\* has run (no stats record, no library, cache, list or log write) and appends
\* exactly one background task (url, device id, country, that request id);
\* for any other URL it raises and queues nothing.
C11_AsyncImportAccepts ==
    [][(/\ nreq' = nreq + 1
        /\ last'.op = "import"
        /\ last'.mode = "async")
       => IF contains(last'.url, D_audible) \/ contains(last'.url, D_goodreads)
          THEN /\ last'.outcome = "accepted"
               /\ last'.request_id = nreq'
               /\ Len(background') = Len(background) + 1
               /\ SubSeq(background', 1, Len(background)) = background
               /\ LET task == background'[Len(background')]
                  IN  /\ task.url = last'.url
                      /\ task.req_id = last'.request_id
                      /\ task.client.device_id = get_device_hash(ImportAddress)
                      /\ task.client.country \in GeoAnswers
                      /\ ImportAddress \in DOMAIN geoCache'
                      /\ task.client.country = geoCache'[ImportAddress].data
               /\ UNCHANGED <<provider_stats, books, bookCache, lists, logs>>
          ELSE /\ last'.outcome = "error400"
               /\ UNCHANGED <<background, provider_stats, books, bookCache, lists, logs>>]_vars

C11_Witness ==
    /\ last.op = "import"
    /\ last.mode = "async"
    /\ last.outcome = "accepted"
    /\ contains(last.url, D_audible)
    /\ Len(background) = 1
    /\ background[1].req_id = last.request_id
    /\ lists = EmptyDict
    /\ provider_stats = <<>>

\* the asynchronous endpoint with the scheduling of BackgroundTasks: a queued
\* task is run after the response (the clock stands still)
NextDetached ==
    \/ \E url \in ImportUrls : import_audible_list_async(url)
    \/ safe_import_task

SpecImportFair == InitImport /\ [][NextDetached]_vars /\ WF_vars(safe_import_task)

\* a queued import of url whose execute_list_import will raise
queued_failing(url) ==
    \E i \in DOMAIN background :
        /\ background[i].url = url
        /\ execute_list_import(url, background[i].client, background[i].req_id, now).raised

import_errors(log, url) ==
    Cardinality({i \in DOMAIN log : log[i].action = "import_error" /\ log[i].target = url})

PageAsins ==
    <<"B01", "B02", "B03", "B04", "B05", "B06", "B07", "B08", "B09",
      "B10", "B11", "B12", "B13", "B14", "B15", "B16", "B17", "B18",
      "B19", "B20", "B21", "B22", "B23", "B24", "B25">>

\* C13: importing an identifier-only (Audible) list of n identifiers processes
\* ceil(n/10) chunks of at most 10 members, one after another in list order
\* (25 identifiers: 3 chunks).
C13_ChunkedImport ==
    (/\ last.op \in {"import", "background"}
     /\ "chunks" \in DOMAIN last
     /\ contains(last.url, D_audible))
    => (/\ Len(last.chunks) = (Len(PageAsins) + 9) \div 10
        /\ \A c \in DOMAIN last.chunks : Len(last.chunks[c]) <= 10
        /\ flatten(last.chunks) = PageAsins)

\* C14: a synchronous import of an identifier-only list with n > 0 harvested
\* identifiers is a success carrying requested count n and imported count k,
\* k being the number of identifiers known or persisted after the import.
C14_PartialImportSucceeds ==
    (/\ last.op = "import"
     /\ last.mode = "sync"
     /\ contains(last.url, D_audible)
     /\ Len(PageAsins) > 0)
    => (/\ last.outcome = "success"
        /\ last.response.status = "success"
        /\ last.response.count = Len(PageAsins)
        /\ last.response.imported
             = Cardinality({i \in DOMAIN PageAsins : PageAsins[i] \in DOMAIN books}))

\* C15: an import (synchronous, or run from the background queue) whose
\* scrape yields zero items ends in a failure outcome and leaves the lists
\* collection, the durable library and the caches of books and searches
\* unchanged.
C15_EmptyScrapeFails ==
    [][(/\ \/ (nreq' = nreq + 1 /\ last'.op = "import" /\ last'.mode = "sync")
           \/ (background # <<>> /\ background' = Tail(background)
               /\ last'.op = "background")
        /\ contains(last'.url, D_goodreads)
        /\ answer("Goodreads Scraper").items = <<>>)
       => (/\ last'.outcome \in {"error400", "import_error"}
           /\ UNCHANGED <<lists, books, bookCache, searchCache>>)]_vars

C15_Witness ==
    /\ last.op = "import"
    /\ last.mode = "sync"
    /\ contains(last.url, D_goodreads)
    /\ answer("Goodreads Scraper").items = <<>>
    /\ last.outcome = "error400"
    /\ lists = EmptyDict
    /\ Len(provider_stats) = 2

----------------------------------------------------------------------------
(* utils.normalize_language *)

LANGUAGE_MAP ==
    (<<"e", "n", "g", "l", "i", "s", "h">> :> <<"e", "n">>) @@
    (<<"g", "e", "r", "m", "a", "n">> :> <<"d", "e">>) @@
    (<<"d", "e", "u", "t", "s", "c", "h">> :> <<"d", "e">>) @@
    (<<"f", "r", "e", "n", "c", "h">> :> <<"f", "r">>) @@
    (<<"f", "r", "a", "n", "c", "a", "i", "s">> :> <<"f", "r">>) @@
    (<<"s", "p", "a", "n", "i", "s", "h">> :> <<"e", "s">>) @@
    (<<"e", "s", "p", "a", "n", "o", "l">> :> <<"e", "s">>) @@
    (<<"i", "t", "a", "l", "i", "a", "n">> :> <<"i", "t">>) @@
    (<<"i", "t", "a", "l", "i", "a", "n", "o">> :> <<"i", "t">>) @@
    (<<"j", "a", "p", "a", "n", "e", "s", "e">> :> <<"j", "a">>) @@
    (<<"c", "h", "i", "n", "e", "s", "e">> :> <<"z", "h">>) @@
    (<<"m", "a", "n", "d", "a", "r", "i", "n">> :> <<"z", "h">>) @@
    (<<"r", "u", "s", "s", "i", "a", "n">> :> <<"r", "u">>) @@
    (<<"p", "o", "r", "t", "u", "g", "u", "e", "s", "e">> :> <<"p", "t">>) @@
    (<<"p", "o", "l", "i", "s", "h">> :> <<"p", "l">>) @@
    (<<"d", "u", "t", "c", "h">> :> <<"n", "l">>) @@
    (<<"s", "w", "e", "d", "i", "s", "h">> :> <<"s", "v">>) @@
    (<<"d", "a", "n", "i", "s", "h">> :> <<"d", "a">>) @@
    (<<"f", "i", "n", "n", "i", "s", "h">> :> <<"f", "i">>) @@
    (<<"n", "o", "r", "w", "e", "g", "i", "a", "n">> :> <<"n", "o">>) @@
    (<<"k", "o", "r", "e", "a", "n">> :> <<"k", "o">>)

\* normalize_language(lang_str), None standing for a missing value
normalize_language(lang_str) ==
    IF ~Truthy(lang_str) THEN <<"e", "n">>
    ELSE LET lowered == strip(lower(Str(lang_str)))
             dashed == IF contains(lowered, <<"-">>) THEN split(lowered, "-")[1]
                       ELSE lowered
             cleaned == IF contains(dashed, <<"_">>) THEN split(dashed, "_")[1]
                        ELSE dashed
         IN  IF Len(cleaned) = 2 THEN cleaned
             ELSE DictGet(LANGUAGE_MAP, cleaned, <<"e", "n">>)

\* the inputs: the named examples, the missing and the empty value, and every
\* string of at most MaxLang characters over a small alphabet
LangAlphabet == {"e", "n", "E", "x", "d", "-", "_", " "}

LangInputs ==
    {None, <<>>, <<"E", "n", "g", "l", "i", "s", "h">>, <<"E", "N", "-", "u", "s">>, <<"D", "e", "u", "t", "s", "c", "h">>,
     <<"d", "e", "u", "t", "s", "c", "h", "_", "A", "T">>, <<" ", "G", "e", "r", "m", "a", "n", " ">>, <<"K", "l", "i", "n", "g", "o", "n">>}
    \cup UNION {[1..n -> LangAlphabet] : n \in 1..MaxLang}

NormalizeCall(lang_str) ==
    /\ last' = [op |-> "normalize", lang_str |-> lang_str,
                result |-> normalize_language(lang_str)]
    /\ UNCHANGED <<books, bookCache, searchCache, geoCache, provider_stats, logs, unified,
                   lists, settings, now, nreq, upstream, background, origin>>

InitLanguage == InitBase /\ upstream = QuietUpstream

NextLanguage == \E lang_str \in LangInputs : NormalizeCall(lang_str)

SpecLanguage == InitLanguage /\ [][NextLanguage]_vars

\* the codes normalize_language knows
KnownCodes == {LANGUAGE_MAP[k] : k \in DOMAIN LANGUAGE_MAP}

\* C16: normalize_language maps every input to a recognized code or to the
\* fallback "en": "English" -> "en", "EN-us" -> "en", "Deutsch" -> "de", and
\* an unrecognized input, the two-letter "xx" included, -> "en".
C16_NormalizesToKnownCode ==
    last.op = "normalize"
    => (/\ last.result \in KnownCodes
        /\ last.lang_str = <<"E", "n", "g", "l", "i", "s", "h">> => last.result = <<"e", "n">>
        /\ last.lang_str = <<"E", "N", "-", "u", "s">> => last.result = <<"e", "n">>
        /\ last.lang_str = <<"D", "e", "u", "t", "s", "c", "h">> => last.result = <<"d", "e">>
        /\ last.lang_str = <<"x", "x">> => last.result = <<"e", "n">>)

----------------------------------------------------------------------------
(* get_book_details *)

I_13 == "9780141439518"

p1 == [asin |-> I_13, title |-> T_Emma, authors |-> <<A_JA>>,
       provider |-> "Penguin Random House"]
gb1 == [asin |-> "G9", title |-> T_Dune, authors |-> <<A_FH>>, provider |-> "Google Books"]

\* the ids of the detail requests: known to Audible, to iTunes, to PRH, to
\* Google Books, to nobody
DetailIds == {"X", "Z", I_13, "G9", "Q"}

\* the record an adapter holds for an id, if any
DetailCatalog(p) ==
    CASE p = "Audible" -> <<a1>>
      [] p = "iTunes" -> <<i2>>
      [] p = "PRH" -> <<p1>>
      [] p = "Google Books" -> <<gb1>>
      [] OTHER -> <<>>

DetailAdapters == {"Audible", "iTunes", "PRH", "Google Books"}

\* which adapters answer at all in one behaviour
DetailWorlds == [DetailAdapters -> {"hit", "miss"}]

\* what a details call of adapter p returns for the id: the record, or nothing
\* (None, or an exception the handler swallows)
detail_answer(p, asin) ==
    LET found == SelectSeq(DetailCatalog(p), LAMBDA b : b["asin"] = asin)
    IN  IF p \in DOMAIN upstream /\ upstream[p] = "hit" THEN found ELSE <<>>

\* prh.fetch_details: nothing without an api key in the settings
prh_fetch_details(asin) ==
    IF "prh_api_key" \notin DOMAIN get_system_settings THEN <<>>
    ELSE detail_answer("PRH", asin)

\* asin.isdigit() and len(asin) == 13, on the ids of the model
is_isbn13(asin) == asin = I_13

DetailAddress == "127.0.0.1"

\* a cache hit that hands the entry back as it is
bump_access_none(cached, t) == cached

\* lines 368-369: the hit counts as one more access
bump_access(cached, t) ==
    DictSet(DictSet(cached, "access_count", DictGet(cached, "access_count", 0) + 1),
            "last_accessed", IsoString(t))

\* a store hit that leaves the cache alone
write_through_none(cache, asin, stored, t) == cache

\* a store hit that writes an entry whose time to live has already run out
write_through_expired(cache, asin, stored, t) ==
    DictSet(cache, asin, [data |-> json_book(stored), expires |-> t])

\* line 378: set_cache(cache_key, stored)
write_through(cache, asin, stored, t) == set_cache(cache, asin, json_book(stored), t)

\* GET /book/{asin}
get_book_details(asin) ==
    /\ nreq < MaxRequests
    /\ nreq' = nreq + 1
    /\ LET t == now
           client == process_client_info(DetailAddress, "US")
           cached == get_cache(bookCache, asin)
           audible_data == detail_answer("Audible", asin)
           itunes_data == detail_answer("iTunes", asin)
           prh_data == IF is_isbn13(asin) THEN prh_fetch_details(asin) ELSE <<>>
           data == IF audible_data # <<>> THEN audible_data[1]
                   ELSE IF itunes_data # <<>> THEN itunes_data[1]
                   ELSE prh_data[1]
           source == IF audible_data # <<>> THEN "Audible"
                     ELSE IF itunes_data # <<>> THEN "iTunes" ELSE "PRH"
           tried == <<"cache", "store", "Audible">>
                    \o (IF audible_data = <<>> THEN <<"iTunes">> ELSE <<>>)
                    \o (IF audible_data = <<>> /\ itunes_data = <<>> /\ is_isbn13(asin)
                        THEN <<"PRH">> ELSE <<>>)
           base == [op |-> "details", asin |-> asin, at |-> t]
       IN  IF cached.truthy
           THEN \* 1. cache hit
                LET hit == bump_access(cached.value, t)
                IN  /\ bookCache' = set_cache(bookCache, asin, json_book(hit), t)
                    /\ logs' = Append(logs, log_record("fetch_metadata", asin, "Redis Hit",
                                                       client))
                    /\ last' = base @@ [outcome |-> "book", tried |-> <<"cache">>,
                                        result |-> DictSet(hit, "custom_metadata", EmptyDict)]
                    /\ UNCHANGED books
           ELSE IF asin \in DOMAIN books
           THEN \* 2. store hit
                /\ bookCache' = write_through(bookCache, asin, books[asin], t)
                /\ logs' = Append(logs, log_record("fetch_metadata", asin, "Mongo Hit",
                                                   client))
                /\ last' = base @@ [outcome |-> "book", tried |-> <<"cache", "store">>,
                                    result |-> DictSet(books[asin], "custom_metadata",
                                                       EmptyDict)]
                /\ UNCHANGED books
           ELSE IF audible_data # <<>> \/ itunes_data # <<>> \/ prh_data # <<>>
           THEN \* finalize(data, source)
                LET final == DictSet(_init_stats(data, t), "custom_metadata", EmptyDict)
                IN  /\ books' = upsert_book_to_db(books, final, t)
                    /\ bookCache' = set_cache(bookCache, asin, json_book(final), t)
                    /\ logs' = Append(logs, log_record("fetch_metadata", asin, source,
                                                       client))
                    /\ last' = base @@ [outcome |-> "book", tried |-> tried,
                                        result |-> final]
           ELSE \* 404 Book not found
                /\ logs' = Append(logs, log_record("fetch_error", asin, "Not found",
                                                   client))
                /\ last' = base @@ [outcome |-> "error404", tried |-> tried,
                                    result |-> EmptyDict]
                /\ UNCHANGED <<books, bookCache>>
    /\ UNCHANGED <<searchCache, geoCache, provider_stats, unified, lists, settings, now,
                   upstream, background, origin>>

WithPrhKey == DictSet(DEFAULT_SETTINGS, "prh_api_key", "k")

\* the book collection and the book cache before any request, and as a search
\* at time 0 that found a1 leaves them (lines 326-333)
StartLibraries ==
    {[books |-> EmptyDict, bookCache |-> EmptyDict],
     [books |-> persist_all(EmptyDict, <<_init_stats(a1, 0)>>, 0),
      bookCache |-> cache_all(EmptyDict, <<_init_stats(a1, 0)>>, 0)]}

InitDetails ==
    /\ \E lib \in StartLibraries : books = lib.books /\ bookCache = lib.bookCache
    /\ searchCache = EmptyDict
    /\ geoCache = EmptyDict
    /\ provider_stats = <<>>
    /\ logs = <<>>
    /\ unified = {}
    /\ lists = EmptyDict
    /\ settings \in {NoConfig, WithPrhKey}
    /\ now = 0
    /\ nreq = 0
    /\ background = <<>>
    /\ origin = EmptyDict
    /\ last = NoCall
    /\ upstream \in DetailWorlds

NextDetails ==
    \/ \E asin \in DetailIds : get_book_details(asin)
    \/ Tick

SpecDetails == InitDetails /\ [][NextDetails]_vars

\* C17: get_book_details answers not-found only after the cache, the durable
\* store and every provider adapter have been tried for the id and all of
\* them missed; the not-found is logged and is the 404 outcome.
C17_NotFoundAfterAllSources ==
    (last.op = "details" /\ last.outcome = "error404")
    => (/\ {"cache", "store"} \subseteq Range(last.tried)
        /\ \A p \in DetailAdapters :
              /\ p \in Range(last.tried)
              /\ detail_answer(p, last.asin) = <<>>
        /\ logs # <<>>
        /\ logs[Len(logs)].action = "fetch_error"
        /\ logs[Len(logs)].target = last.asin)

----------------------------------------------------------------------------
(* The search cache key as a function of the query parameters *)

MaxKeyLen == 2

KeyAlphabet == {"a", "A", " ", ",", "_"}

Q_None == <<"N", "o", "n", "e">>

\* the texts a client can send as q
KeyTexts ==
    UNION {[1..n -> KeyAlphabet] : n \in 0..MaxKeyLen} \cup {Q_None}

KeyRequests ==
    [q : KeyTexts \cup {None}, author : {None, A_FH}, isbn : {None},
     providers : {None}, min_rating : {NoRate, 4}]

\* a query parameter up to letter case and whitespace
fold(s) == IF s = None THEN None ELSE replace(lower(s), " ", <<>>)

same_search(a, b) ==
    /\ fold(a.q) = fold(b.q)
    /\ fold(a.author) = fold(b.author)
    /\ fold(a.isbn) = fold(b.isbn)
    /\ fold(a.providers) = fold(b.providers)
    /\ a.min_rating = b.min_rating

\* lines 230-236 for the two requests of the behaviour, under one configuration
KeyCall ==
    /\ last.op = "none"
    /\ LET config == get_system_settings
           limit == DictGet(config, "search_limit", 5)
       IN  last' = [op |-> "key", a |-> upstream.a, b |-> upstream.b,
                    key_a |-> clean_key(upstream.a, limit),
                    key_b |-> clean_key(upstream.b, limit)]
    /\ UNCHANGED <<books, bookCache, searchCache, geoCache, provider_stats, logs, unified,
                   lists, settings, now, nreq, upstream, background, origin>>

InitKey == InitBase /\ upstream \in [a : KeyRequests, b : KeyRequests]

NextKey == KeyCall

SpecKey == InitKey /\ [][NextKey]_vars

\* C18: two searches with the same cache key differ in no query parameter
\* beyond letter case and whitespace.
C18_CacheKeyInjective ==
    (last.op = "key" /\ last.key_a = last.key_b) => same_search(last.a, last.b)

----------------------------------------------------------------------------
(* Claims on unify_search_results across calls (specification SpecUnify) *)

\* the Unified Entities that hold the candidate among their relations
entities_of(U, b) == {e \in U : relation_of(b) \in e.relations}

\* the records of the output that stand for an entity of the candidate
records_of(out, U, b) ==
    {k \in DOMAIN out : \E e \in entities_of(U, b) : out[k]["unified_id"] = e.id}

\* no candidate of the list has a strong identifier, and all have the title
\* and first author of the first one
same_title_author(cands) ==
    /\ cands # <<>>
    /\ \A i \in DOMAIN cands :
          /\ ~strong_isbn(cands[i])
          /\ title_author_key(cands[i]) = title_author_key(cands[1])

\* C19: a candidate list whose candidates all share the normalized title and
\* first author, none with a strong identifier, comes back as exactly one
\* unified record that lists the providers of all candidates, whatever entities
\* earlier calls created.
C19_SameTitleAuthorOneRecord ==
    (last.op = "unify" /\ same_title_author(last.cands))
    => (/\ Len(last.out) = 1
        /\ last.out[1]["available_providers"]
              = {last.cands[i]["provider"] : i \in DOMAIN last.cands})

\* the match keys of lines 49-59 differ: spelled out on the isbn test and the
\* title/author key
keys_differ(b1, b2) ==
    \/ strong_isbn(b1) # strong_isbn(b2)
    \/ strong_isbn(b1) /\ strong_isbn(b2) /\ b1["isbn"] # b2["isbn"]
    \/ ~strong_isbn(b1) /\ ~strong_isbn(b2) /\ title_author_key(b1) # title_author_key(b2)

\* C20: two candidates of a call whose match keys differ and that were not
\* relations of one Unified Entity before the call are, after it, relations of
\* different entities, and stand in different records of the output.
C20_DifferentKeysStaySeparate ==
    last.op = "unify" =>
        \A i, j \in DOMAIN last.cands :
            LET b1 == last.cands[i]
                b2 == last.cands[j]
            IN  (/\ keys_differ(b1, b2)
                 /\ entities_of(last.before, b1) \cap entities_of(last.before, b2) = {})
                => (/\ entities_of(unified, b1) # {}
                    /\ entities_of(unified, b2) # {}
                    /\ entities_of(unified, b1) \cap entities_of(unified, b2) = {}
                    /\ Cardinality(records_of(last.out, unified, b1)) = 1
                    /\ Cardinality(records_of(last.out, unified, b2)) = 1
                    /\ records_of(last.out, unified, b1) # records_of(last.out, unified, b2))

\* two unresolved candidates with the same title and author, one of them with
\* a strong identifier, next to a candidate an earlier call had already unified
C20_Witness ==
    /\ last.op = "unify"
    /\ \E i, j, k \in DOMAIN last.cands :
          LET b1 == last.cands[i]
              b2 == last.cands[j]
              b3 == last.cands[k]
          IN  /\ entities_of(last.before, b1) = {}
              /\ entities_of(last.before, b2) = {}
              /\ entities_of(last.before, b3) # {}
              /\ strong_isbn(b1) /\ ~strong_isbn(b2)
              /\ title_author_key(b1) = title_author_key(b2)
              /\ keys_differ(b2, b3)
              /\ Len(last.out) = 3

----------------------------------------------------------------------------
(* Lists: create_manual_list and get_list_items *)

MaxPageNo == 3
MaxLimit == 2

S_custom == <<"c", "u", "s", "t", "o", "m", ":">>

\* f"custom:{uuid.uuid4()}": an id no earlier list has
custom_id(store) == S_custom \o str_int(Len(store) + 1)

\* lines 285-294
create_custom_list(store, name, asins, t) ==
    Append(store,
           [name |-> name, url |-> custom_id(store), asins |-> asins, count |-> Len(asins),
            type |-> "custom", created_at |-> DateTime(t), updated_at |-> DateTime(t)])

\* str.strip on an id of the model
strip_id(a) == IF a = " " THEN "" ELSE a

\* line 642: the distinct non-blank ids, as a set
clean_asin_set(asins) == {strip_id(asins[i]) : i \in DOMAIN asins} \ {""}

\* list(set(...)): the members of the set in some order
orders(S) ==
    {f \in [1..Cardinality(S) -> S] : \A i, j \in 1..Cardinality(S) : i # j => f[i] # f[j]}

L_mine == <<"M", "i", "n", "e">>

\* the bodies of POST /lists/create
CreateInputs ==
    {[name |-> L_mine, asins |-> a] :
        a \in {<<>>, <<"X", "G1", "Q">>, <<"X", " ", "X">>}}

ListAddress == "127.0.0.1"

\* POST /lists/create
create_manual_list(data) ==
    /\ nreq < MaxRequests
    /\ nreq' = nreq + 1
    /\ LET client == process_client_info(ListAddress, "US")
           req_id == nreq + 1
           clean == clean_asin_set(data.asins)
       IN  IF clean = {}
           THEN /\ last' = [op |-> "create_list", outcome |-> "error400"]
                /\ UNCHANGED <<lists, books, bookCache, provider_stats, logs>>
           ELSE \E clean_asins \in orders(clean) :
                LET done == import_members(clean_asins,
                                [books |-> books, bookCache |-> bookCache,
                                 stats |-> <<>>, imported |-> 0],
                                req_id, now)
                IN  /\ lists' = create_custom_list(lists, data.name, clean_asins, now)
                    /\ books' = done.books
                    /\ bookCache' = done.bookCache
                    /\ provider_stats' = provider_stats \o done.stats
                    /\ logs' = Append(logs, log_record("create_list", data.name,
                                                       done.imported, client))
                    /\ last' = [op |-> "create_list", outcome |-> "success",
                                url |-> custom_id(lists),
                                response |-> [status |-> "success", name |-> data.name,
                                              count |-> Len(clean_asins)]]
    /\ UNCHANGED <<searchCache, geoCache, unified, settings, now, upstream, background,
                   origin>>

\* a slice that starts one page late
page_asins_late(all_asins, page, limit) ==
    LET start == page * limit
        end == start + limit
    IN  IF start >= Len(all_asins) THEN <<>>
        ELSE SubSeq(all_asins, start + 1, IF end < Len(all_asins) THEN end ELSE Len(all_asins))

\* lines 586-588: all_asins[start:end]
page_asins(all_asins, page, limit) ==
    LET start == (page - 1) * limit
        end == start + limit
    IN  IF start >= Len(all_asins) THEN <<>>
        ELSE SubSeq(all_asins, start + 1, IF end < Len(all_asins) THEN end ELSE Len(all_asins))

T_UnknownTitle == <<"U", "n", "k", "n", "o", "w", "n", " ", "T", "i", "t", "l", "e">>
T_Unknown == <<"U", "n", "k", "n", "o", "w", "n">>

\* lines 594-604: the data of one id, where it came from, the cache afterwards
fetch_item(asin, cache, t) ==
    LET cached == get_cache(cache, asin)
    IN  IF cached.truthy
        THEN [data |-> cached.value, from |-> "cache", cache |-> cache]
        ELSE IF asin \in DOMAIN books
        THEN [data |-> books[asin], from |-> "store",
              cache |-> set_cache(cache, asin, json_book(books[asin]), t)]
        ELSE [data |-> [asin |-> asin, title |-> T_UnknownTitle, authors |-> <<>>],
              from |-> "placeholder", cache |-> cache]

\* lines 607-608: the items of the page, one after the other
RECURSIVE fetch_items(_, _, _)
fetch_items(asins, cache, t) ==
    IF asins = <<>> THEN [results |-> <<>>, from |-> <<>>, cache |-> cache]
    ELSE LET first == fetch_item(Head(asins), cache, t)
             rest == fetch_items(Tail(asins), first.cache, t)
         IN  [results |-> <<first.data>> \o rest.results,
              from |-> <<first.from>> \o rest.from,
              cache |-> rest.cache]

\* lines 611-625: ListItemDefault or ListItemEnhanced
list_item(data, enhanced) ==
    LET base_info == [asin |-> DictGet(data, "asin", T_Unknown),
                      title |-> DictGet(data, "title", T_Unknown),
                      authors |-> DictGet(data, "authors", <<>>)]
    IN  IF enhanced
        THEN base_info @@ [genres |-> DictGet(data, "genres", <<>>),
                           cover_image |-> DictGet(data, "cover_image", None),
                           rating |-> DictGet(data, "rating", None)]
        ELSE base_info

\* GET /lists/{list_id}/items
get_list_items(list_id, page, limit, enhanced) ==
    /\ nreq < MaxRequests
    /\ nreq' = nreq + 1
    /\ IF list_id \notin DOMAIN lists
       THEN /\ last' = [op |-> "list_items", list_id |-> list_id, outcome |-> "error404"]
            /\ UNCHANGED bookCache
       ELSE LET all_asins == DictGet(lists[list_id], "asins", <<>>)
                total_count == Len(all_asins)
                total_pages == (total_count + limit - 1) \div limit
                fetched == fetch_items(page_asins(all_asins, page, limit), bookCache, now)
            IN  /\ bookCache' = fetched.cache
                /\ last' = [op |-> "list_items", list_id |-> list_id, outcome |-> "ok",
                            limit |-> limit, from |-> fetched.from,
                            response |->
                                [items |-> [i \in DOMAIN fetched.results |->
                                               list_item(fetched.results[i], enhanced)],
                                 total_count |-> total_count, page |-> page,
                                 total_pages |-> total_pages]]
    /\ UNCHANGED <<books, searchCache, geoCache, provider_stats, logs, unified, lists,
                   settings, now, upstream, background, origin>>

\* the list site shows another list than before
SiteChanges ==
    /\ upstream' \in ImportWorlds \ {upstream}
    /\ UNCHANGED <<books, bookCache, searchCache, geoCache, provider_stats, logs, unified,
                   lists, settings, now, nreq, background, origin, last>>

\* the URLs sent to POST /lists/import: the list site, and the internal id of
\* the first custom list
ListImportUrls == {U_goodreads, S_custom \o str_int(1)}

InitLists == InitBase /\ upstream \in ImportWorlds

NextLists ==
    \/ \E url \in ListImportUrls : import_audible_list(url)
    \/ \E data \in CreateInputs : create_manual_list(data)
    \/ SiteChanges

SpecLists == InitLists /\ [][NextLists]_vars

NextListItems ==
    \/ import_audible_list(U_goodreads)
    \/ \E data \in CreateInputs : create_manual_list(data)
    \/ \E list_id \in 1..(Len(lists) + 1), page \in 1..MaxPageNo, limit \in 1..MaxLimit,
          enhanced \in BOOLEAN :
          get_list_items(list_id, page, limit, enhanced)
    \/ Tick

SpecListItems == InitLists /\ [][NextListItems]_vars

\* the ids a client expects on page p of size L: positions (p-1)*L .. p*L-1,
\* counted from 0
expected_page(all_asins, p, L) ==
    LET positions == {k \in DOMAIN all_asins : (p - 1) * L <= k - 1 /\ k - 1 <= p * L - 1}
    IN  [n \in 1..Cardinality(positions) |-> all_asins[(p - 1) * L + n]]

\* the least number of pages of size L that hold T ids
ceil_div(T, L) == CHOOSE n \in 0..T : n * L >= T /\ \A m \in 0..T : m * L >= T => n <= m

\* C21: get_list_items on a list of T ids with page p and limit L answers
\* total_count T, total_pages ceil(T/L) and the ids at positions
\* (p-1)*L .. p*L-1 in list order; an item comes from the cache when the id is
\* cached, else from the durable store and is then written to the cache, else
\* it is the placeholder titled "Unknown Title"; no provider is called.
C21_ListItemsPage ==
    [][(nreq' = nreq + 1 /\ last'.op = "list_items" /\ last'.outcome = "ok")
       => LET r == last'.response
              all_asins == lists[last'.list_id]["asins"]
              want == expected_page(all_asins, r.page, last'.limit)
          IN  /\ r.total_count = Len(all_asins)
              /\ r.total_pages = ceil_div(Len(all_asins), last'.limit)
              /\ [i \in DOMAIN r.items |-> r.items[i].asin] = want
              /\ \A i \in DOMAIN want :
                    IF want[i] \in DOMAIN bookCache
                    THEN /\ r.items[i].title = bookCache[want[i]].data["title"]
                         /\ bookCache'[want[i]] = bookCache[want[i]]
                    ELSE IF want[i] \in DOMAIN books
                    THEN /\ r.items[i].title = books[want[i]]["title"]
                         /\ want[i] \in DOMAIN bookCache'
                         /\ bookCache'[want[i]].data = json_book(books[want[i]])
                    ELSE /\ r.items[i].title = T_UnknownTitle
                         /\ r.items[i].authors = <<>>
                         /\ want[i] \notin DOMAIN bookCache'
              /\ UNCHANGED <<books, provider_stats, lists>>]_vars

\* a page of two items out of three, one read from the durable store after
\* its cache entry ran out, one unknown to cache and store
C21_Witness ==
    /\ last.op = "list_items"
    /\ last.outcome = "ok"
    /\ last.response.total_count = 3
    /\ last.response.total_pages = 2
    /\ Len(last.response.items) = 2
    /\ "store" \in Range(last.from)
    /\ "placeholder" \in Range(last.from)

\* C22: there is at most one imported list per source URL, an import that
\* succeeds leaves the list of its URL with the name and the members it
\* scraped, and no import changes or replaces a custom list.
C22_OneImportedListPerUrl ==
    /\ [](\A i, j \in DOMAIN lists :
             (i # j /\ lists[i]["type"] = "imported" /\ lists[j]["type"] = "imported")
             => lists[i]["url"] # lists[j]["url"])
    /\ [][(nreq' = nreq + 1 /\ last'.op = "import")
          => /\ \A i \in DOMAIN lists :
                   lists[i]["type"] = "custom"
                   => (i \in DOMAIN lists' /\ lists'[i] = lists[i])
             /\ last'.outcome = "success"
                => \E i \in DOMAIN lists' :
                      /\ lists'[i]["url"] = last'.url
                      /\ lists'[i]["type"] = "imported"
                      /\ lists'[i]["name"] = answer("Goodreads Scraper").title
                      /\ lists'[i]["asins"]
                            = [k \in DOMAIN answer("Goodreads Scraper").items |->
                                  answer("Goodreads Scraper").items[k]["asin"]]
                      /\ Len(lists'[i]["asins"]) = last'.response.count]_vars

\* the same URL was imported twice, the site showing another number of books
\* the second time, and the collection holds one list
C22_Witness ==
    /\ last.op = "import"
    /\ last.outcome = "success"
    /\ Len(logs) = 2
    /\ logs[1].action = "import_list"
    /\ logs[2].action = "import_list"
    /\ logs[1].details # logs[2].details
    /\ Len(lists) = 1
    /\ lists[1]["count"] = logs[2].details

----------------------------------------------------------------------------
(* Claims on the read path of get_book_details (specification SpecDetails) *)

\* the step is a get_book_details call for the id
details_step(asin) == nreq' = nreq + 1 /\ last'.op = "details" /\ last'.asin = asin

\* C23: a get_book_details call that finds the id in the cache raises the
\* cached access_count by exactly 1, sets last_accessed, rewrites the cache
\* entry, returns it, asks no provider and writes nothing to the durable store.
C23_CacheHitBumpsAccess ==
    [][\A asin \in DetailIds :
          (details_step(asin) /\ asin \in DOMAIN bookCache)
          => LET old == bookCache[asin].data
                 new == bookCache'[asin].data
             IN  /\ new["access_count"] = DictGet(old, "access_count", 0) + 1
                 /\ new["last_accessed"] = IsoString(now)
                 /\ \A k \in DOMAIN old \ {"access_count", "last_accessed"} :
                       k \in DOMAIN new /\ new[k] = old[k]
                 /\ bookCache'[asin].expires = now + CACHE_TTL
                 /\ last'.outcome = "book"
                 /\ \A k \in DOMAIN new : last'.result[k] = new[k]
                 /\ last'.tried = <<"cache">>
                 /\ UNCHANGED <<books, provider_stats>>]_vars

\* a second hit on the same cached id: the count went from 1 to 3
C23_Witness ==
    /\ last.op = "details"
    /\ last.tried = <<"cache">>
    /\ last.result["access_count"] = 3
    /\ bookCache[last.asin].data["access_count"] = 3
    /\ books[last.asin]["access_count"] = 1

\* C24: a get_book_details call that misses the cache and finds the id in the
\* durable store writes the stored record to the cache and asks no provider;
\* the next get_book_details for that id, the cache entry not having run out
\* in between, is a cache hit.
C24_StoreHitWritesThrough ==
    [][\A asin \in DetailIds :
          /\ (details_step(asin) /\ asin \notin DOMAIN bookCache /\ asin \in DOMAIN books)
             => /\ asin \in DOMAIN bookCache'
                /\ bookCache'[asin].data = json_book(books[asin])
                /\ last'.outcome = "book"
                /\ last'.tried = <<"cache", "store">>
                /\ UNCHANGED <<books, provider_stats>>
          /\ (/\ details_step(asin)
              /\ last.op = "details" /\ last.asin = asin
              /\ last.tried = <<"cache", "store">>
              /\ now < last.at + CACHE_TTL)
             => last'.tried = <<"cache">>]_vars

\* a cache hit right after a store hit for the same id
C24_Witness ==
    /\ last.op = "details"
    /\ last.tried = <<"cache">>
    /\ last.asin \in DOMAIN books
    /\ Len(logs) = 2
    /\ logs[1].details = "Mongo Hit"
    /\ logs[1].target = last.asin

\* C25: a get_book_details call that misses the cache and returns a book,
\* from the durable store or from a provider, leaves the stored entry with an
\* access_count one higher than before (1 for a new entry).
C25_CacheMissIncrementsStoredCount ==
    [][\A asin \in DetailIds :
          (details_step(asin) /\ asin \notin DOMAIN bookCache /\ last'.outcome = "book")
          => /\ asin \in DOMAIN books'
             /\ books'[asin]["access_count"]
                   = (IF asin \in DOMAIN books THEN books[asin]["access_count"] ELSE 0) + 1]_vars

\* C26: of two get_book_details calls in a row for the same id, the second
\* never returns a smaller access_count than the first.
C26_ReturnedCountMonotonic ==
    [][\A asin \in DetailIds :
          (/\ details_step(asin)
           /\ last'.outcome = "book"
           /\ last.op = "details" /\ last.asin = asin /\ last.outcome = "book")
          => last'.result["access_count"] >= last.result["access_count"]]_vars

----------------------------------------------------------------------------
(* Claims on upsert_book_to_db over time (specification SpecUpsert) *)

\* the step is an upsert_book_to_db call with a record for the id
upsert_step(a) ==
    /\ now' = now
    /\ last'.op = "upsert"
    /\ DictGet(last'.book_data, "asin", "") = a
    /\ (last' # last \/ books' # books)

\* C27: upsert_book_to_db on an id the durable store does not hold creates
\* exactly one entry, with added_at = now and access_count = 1; every upsert
\* sets updated_at to the current time, so the updated_at of a stored entry
\* never decreases and is never earlier than its added_at.
C27_UpsertTimestamps ==
    /\ [](\A a \in DOMAIN books : books[a]["updated_at"][2] >= books[a]["added_at"][2])
    /\ [][/\ \A a \in DOMAIN books :
                a \in DOMAIN books' /\ books'[a]["updated_at"][2] >= books[a]["updated_at"][2]
          /\ \A a \in {"X", "Y"} :
                upsert_step(a)
                => /\ a \in DOMAIN books'
                   /\ books'[a]["updated_at"] = DateTime(now)
                   /\ a \notin DOMAIN books
                      => /\ DOMAIN books' = DOMAIN books \cup {a}
                         /\ \A b \in DOMAIN books : books'[b] = books[b]
                         /\ books'[a]["added_at"] = DateTime(now)
                         /\ books'[a]["access_count"] = 1]_vars

\* an entry created at one time and updated at a later one, next to an entry
\* just created from a record that carried its own access_count and added_at
C27_Witness ==
    /\ last.op = "upsert"
    /\ ~last.existed
    /\ "access_count" \in DOMAIN last.book_data
    /\ "added_at" \in DOMAIN last.book_data
    /\ last.book_data["access_count"] # 1
    /\ \E a, b \in DOMAIN books :
          /\ a # b
          /\ a = last.book_data["asin"]
          /\ books[a]["added_at"] = DateTime(now)
          /\ books[b]["updated_at"][2] > books[b]["added_at"][2]

----------------------------------------------------------------------------
(* Specification SpecUnifyConcurrent: unify_search_results calls that run  *)
(* on one event loop and give way to each other at their awaits            *)

\* how many calls run at the same time
MaxRunning == 2

\* the candidate lists of the concurrent calls: one or two candidates with the
\* ids X and Z
ConcurrentLists ==
    {cands \in CandidateLists :
        Len(cands) \in 1..2 /\ \A i \in DOMAIN cands : cands[i]["asin"] \in {"X", "Z"}}

\* lines 9-63: the call flattens its input, looks every candidate up in the
\* entity collection and groups the unresolved ones; the entities are created
\* later, one await each
unify_begin(cands) ==
    /\ nreq < MaxRequests
    /\ Len(background) < MaxRunning
    /\ nreq' = nreq + 1
    /\ LET all_books == flatten(<<cands>>)
       IN  background' = Append(background,
                                [cands |-> cands, req_id |-> nreq + 1,
                                 groups |-> potential_groups(all_books, unified),
                                 out |-> db_matches(all_books, unified)])
    /\ UNCHANGED <<books, bookCache, searchCache, geoCache, provider_stats, logs, unified,
                   lists, settings, now, upstream, origin, last>>

\* lines 74-92, one round of the loop: create_unified_book for the next group
\* of the call, against the collection as it is by then
unify_create(i) ==
    /\ i \in DOMAIN background
    /\ background[i].groups # <<>>
    /\ LET call == background[i]
           r == create_groups(unified, <<Head(call.groups)>>)
       IN  /\ unified' = r.unified
           /\ background' = [background EXCEPT ![i] =
                                [call EXCEPT !.groups = Tail(@), !.out = @ \o r.out]]
    /\ UNCHANGED <<books, bookCache, searchCache, geoCache, provider_stats, logs,
                   lists, settings, now, nreq, upstream, origin, last>>

\* line 94: the call returns final_output
unify_return(i) ==
    /\ i \in DOMAIN background
    /\ background[i].groups = <<>>
    /\ last' = [op |-> "unify_concurrent", cands |-> background[i].cands,
                out |-> background[i].out]
    /\ background' = [k \in 1..(Len(background) - 1) |->
                         IF k < i THEN background[k] ELSE background[k + 1]]
    /\ UNCHANGED <<books, bookCache, searchCache, geoCache, provider_stats, logs, unified,
                   lists, settings, now, nreq, upstream, origin>>

InitUnifyConcurrent == InitBase /\ upstream = QuietUpstream

NextUnifyConcurrent ==
    \/ \E cands \in ConcurrentLists : unify_begin(cands)
    \/ \E i \in 1..MaxRunning : unify_create(i)
    \/ \E i \in 1..MaxRunning : unify_return(i)

SpecUnifyConcurrent == InitUnifyConcurrent /\ [][NextUnifyConcurrent]_vars

\* C28: whatever the interleaving of concurrently running
\* unify_search_results calls, a {provider, id} pair is a relation of at most
\* one Unified Entity in every reachable state.
C28_PairInOneEntityConcurrent ==
    \A e1, e2 \in unified : e1 # e2 => e1.relations \cap e2.relations = {}

----------------------------------------------------------------------------
(* Specification SpecIngestConcurrent: the loops that persist books, run   *)
(* by handlers that share the event loop and give way at every await       *)

\* the persisting loops that can run: the one of a search over its filtered
\* results (api.py 329-333), the one of a list import over the scraped books
\* (api.py 432-435), and fetch_and_persist_book for one id of a chunk
IngestTasks ==
    {[kind |-> "search", todo |-> <<a1, a2>>],
     [kind |-> "import", todo |-> <<i1>>],
     [kind |-> "fetch", todo |-> <<[asin |-> "X"]>>]}

\* the running task without its first book; the task itself once it is done
drop_head(running, i) ==
    IF Len(running[i].todo) > 1
    THEN [running EXCEPT ![i] = [@ EXCEPT !.todo = Tail(@), !.pc = "upsert"]]
    ELSE [k \in 1..(Len(running) - 1) |-> IF k < i THEN running[k] ELSE running[k + 1]]

\* a handler reaches its persisting loop; a search has stamped its books by
\* then (line 326)
ingest_begin(task) ==
    /\ nreq < MaxRequests
    /\ Len(background) < MaxRunning
    /\ nreq' = nreq + 1
    /\ background' =
          Append(background,
                 [kind |-> task.kind, req_id |-> nreq + 1,
                  pc |-> IF task.kind = "fetch" THEN "check" ELSE "upsert",
                  todo |-> IF task.kind = "search"
                           THEN [i \in DOMAIN task.todo |-> _init_stats(task.todo[i], now)]
                           ELSE task.todo])
    /\ UNCHANGED <<books, bookCache, searchCache, geoCache, provider_stats, logs, unified,
                   lists, settings, now, upstream, origin, last>>

\* lines 461-469: fetch_and_persist_book looks the id up in cache and store,
\* and asks Audible for the product when both miss
ingest_check(i) ==
    /\ i \in DOMAIN background
    /\ background[i].pc = "check"
    /\ LET call == background[i]
           asin == Head(call.todo)["asin"]
           product == benchmark_call(call.req_id, "Audible", product_answer(asin))
       IN  IF get_cache(bookCache, asin).truthy \/ asin \in DOMAIN books
           THEN /\ background' = drop_head(background, i)
                /\ last' = [op |-> "ingest_known", asin |-> asin]
                /\ UNCHANGED provider_stats
           ELSE /\ provider_stats' = Append(provider_stats, product.stat)
                /\ IF product.results = <<>>
                   THEN /\ background' = drop_head(background, i)
                        /\ last' = [op |-> "ingest_unknown", asin |-> asin]
                   ELSE /\ background' =
                              [background EXCEPT ![i] =
                                  [@ EXCEPT !.pc = "upsert",
                                            !.todo = <<_init_stats(product.results[1], now)>>]]
                        /\ last' = [op |-> "ingest_fetched", asin |-> asin]
    /\ UNCHANGED <<books, bookCache, searchCache, geoCache, logs, unified, lists, settings,
                   now, nreq, upstream, origin>>

\* await upsert_book_to_db(book); an import stamps the book just before
\* (line 433)
ingest_upsert(i) ==
    /\ i \in DOMAIN background
    /\ background[i].pc = "upsert"
    /\ LET call == background[i]
           book == IF call.kind = "import" THEN _init_stats(Head(call.todo), now)
                   ELSE Head(call.todo)
       IN  /\ books' = upsert_book_to_db(books, book, now)
           /\ background' = [background EXCEPT ![i] =
                                [@ EXCEPT !.pc = "cache", !.todo = <<book>> \o Tail(@)]]
           /\ last' = [op |-> "ingest_upsert", book_data |-> book,
                       existed |-> book["asin"] \in DOMAIN books]
    /\ UNCHANGED <<bookCache, searchCache, geoCache, provider_stats, logs, unified, lists,
                   settings, now, nreq, upstream, origin>>

\* await set_cache(f"book_v7:{asin}", book), then the next book of the loop
ingest_cache(i) ==
    /\ i \in DOMAIN background
    /\ background[i].pc = "cache"
    /\ LET book == Head(background[i].todo)
       IN  /\ bookCache' = set_cache(bookCache, book["asin"], json_book(book), now)
           /\ last' = [op |-> "ingest_cache", asin |-> book["asin"]]
    /\ background' = drop_head(background, i)
    /\ UNCHANGED <<books, searchCache, geoCache, provider_stats, logs, unified, lists,
                   settings, now, nreq, upstream, origin>>

InitIngestConcurrent == InitBase /\ upstream = QuietUpstream

NextIngestConcurrent ==
    \/ \E task \in IngestTasks : ingest_begin(task)
    \/ \E i \in 1..MaxRunning : ingest_check(i)
    \/ \E i \in 1..MaxRunning : ingest_upsert(i)
    \/ \E i \in 1..MaxRunning : ingest_cache(i)
    \/ Tick

SpecIngestConcurrent == InitIngestConcurrent /\ [][NextIngestConcurrent]_vars

\* the incoming record carries nothing the stored entry does not already have
same_upsert(book_data, entry) ==
    \A k \in DOMAIN book_data \ {"added_at", "access_count"} :
        k \in DOMAIN entry /\ entry[k] = book_data[k]

\* C29: under any interleaving of the persisting loops of concurrent handlers
\* the durable store keeps every entry with the added_at of its first insert
\* and an access_count that is never lowered, an upsert of an id creates its
\* entry or updates the one entry of that id, and an upsert that repeats what
\* the entry already holds changes nothing but updated_at.
C29_ConcurrentUpsertsSafe ==
    [][/\ \A a \in DOMAIN books :
             /\ a \in DOMAIN books'
             /\ books'[a]["added_at"] = books[a]["added_at"]
             /\ books'[a]["access_count"] >= books[a]["access_count"]
       /\ (last'.op = "ingest_upsert" /\ books' # books)
          => LET a == last'.book_data["asin"]
             IN  /\ DOMAIN books' = DOMAIN books \cup {a}
                 /\ \A b \in DOMAIN books \ {a} : books'[b] = books[b]
                 /\ a \notin DOMAIN books
                    => /\ books'[a]["added_at"] = DateTime(now)
                       /\ books'[a]["access_count"] = 1
                 /\ (a \in DOMAIN books /\ same_upsert(last'.book_data, books[a]))
                    => /\ DOMAIN books'[a] = DOMAIN books[a]
                       /\ \A k \in DOMAIN books[a] \ {"updated_at"} :
                             books'[a][k] = books[a][k]]_vars

\* two loops have written the same id at different times: the entry was
\* created by the first and updated by the second, which repeated the record
C29_Witness ==
    /\ last.op = "ingest_upsert"
    /\ last.existed
    /\ Len(background) = 2
    /\ LET a == last.book_data["asin"]
       IN  /\ books[a]["updated_at"][2] > books[a]["added_at"][2]
           /\ same_upsert(last.book_data, books[a])
           /\ books[a]["access_count"] = 1

----------------------------------------------------------------------------
(* Specification SpecSearchTasks: search_audiobook with its provider tasks *)
(* completing one by one, in any order                                     *)

\* a gather that returns with the first task that completes
gather_first(call) == \E i \in DOMAIN call.calls : call.calls[i].done

\* line 312: results_list = await asyncio.gather(*tasks) returns when every
\* task has completed
gather(call) == \A i \in DOMAIN call.calls : call.calls[i].done

\* lines 216-309: the request up to the start of the provider tasks; the
\* search in flight is kept with its tasks, none completed yet
search_begin(req) ==
    /\ nreq < MaxRequests
    /\ background = <<>>
    /\ nreq' = nreq + 1
    /\ \E geo \in (IF needs_lookup(req.ip) THEN GeoAnswers ELSE {"US"}) :
        LET client == process_client_info(req.ip, geo)
            config == get_system_settings
            limit == DictGet(config, "search_limit", 5)
            target == cache_strings[req, limit].cache_str
            key == cache_strings[req, limit].clean_key
            cached == get_cache(searchCache, key)
            tasks == started_tasks(req, config)
            base == [op |-> "search", req |-> req, key |-> key, request_id |-> nreq + 1]
        IN  /\ geoCache' = client.geoCache
            /\ IF no_criteria(req)
               THEN /\ last' = base @@ [hit |-> FALSE, outcome |-> "error400",
                                        result |-> <<>>, tasks |-> <<>>]
                    /\ UNCHANGED <<logs, background>>
               ELSE IF cached.truthy
               THEN /\ logs' = Append(logs, log_record("search", target, "Cache Hit", client))
                    /\ last' = base @@ [hit |-> TRUE, outcome |-> "list",
                                        result |-> abs_list(cached.value), tasks |-> <<>>]
                    /\ UNCHANGED background
               ELSE /\ background' =
                          <<[req |-> req, request_id |-> nreq + 1, key |-> key,
                             target |-> target,
                             client |-> [device_id |-> client.device_id,
                                         country |-> client.country],
                             tasks |-> tasks,
                             order |-> <<>>,
                             calls |-> [i \in DOMAIN tasks |->
                                           [done |-> FALSE, results |-> <<>>]]]>>
                    /\ UNCHANGED <<logs, last>>
    /\ UNCHANGED <<books, bookCache, searchCache, provider_stats, unified, lists, settings,
                   now, upstream, origin>>

\* benchmark_call of one started task runs to its end: the adapter returns or
\* raises, and the finally block writes the provider-stats record
task_complete(i) ==
    /\ background # <<>>
    /\ i \in DOMAIN background[1].calls
    /\ ~background[1].calls[i].done
    /\ LET call == background[1]
           b == benchmark_call(call.request_id, call.tasks[i], answer(call.tasks[i]))
       IN  /\ provider_stats' = Append(provider_stats, b.stat)
           /\ background' = <<[call EXCEPT !.calls[i] = [done |-> TRUE,
                                                         results |-> b.results],
                                           !.order = Append(@, i)]>>
    /\ UNCHANGED <<books, bookCache, searchCache, geoCache, logs, unified, lists, settings,
                   now, nreq, upstream, origin, last>>

\* a gather that hands the results back in the order the tasks completed
gather_as_completed(call) ==
    [k \in DOMAIN call.order |-> call.calls[call.order[k]].results]

\* line 312: asyncio.gather returns the results in the order of the awaitables
\* it was given, whatever the order of completion
gather_results(call) == [i \in DOMAIN call.calls |-> call.calls[i].results]

\* lines 312-343: gather has returned; filter, persist, cache, log, unify, return
search_assemble ==
    /\ background # <<>>
    /\ gather(background[1])
    /\ LET call == background[1]
           results_list == gather_results(call)
           kept == filter_results(flatten(results_list), call.req.min_rating, {})
           filtered_results == [i \in DOMAIN kept |-> _init_stats(kept[i], now)]
           u == unify_search_results(<<filtered_results>>, unified)
       IN  /\ books' = persist_all(books, filtered_results, now)
           /\ bookCache' = cache_all(bookCache, filtered_results, now)
           /\ searchCache' = set_cache(searchCache, call.key, json_list(filtered_results), now)
           /\ logs' = Append(logs, log_record("search", call.target, "Multi-Provider Query",
                                              call.client))
           /\ unified' = u.unified
           /\ last' = [op |-> "search", req |-> call.req, key |-> call.key,
                       request_id |-> call.request_id, hit |-> FALSE, outcome |-> "list",
                       result |-> abs_list(u.out), tasks |-> call.tasks]
    /\ background' = <<>>
    /\ UNCHANGED <<geoCache, provider_stats, lists, settings, now, nreq, upstream, origin>>

NextSearchTasks ==
    \/ \E req \in SearchRequests : search_begin(req)
    \/ \E i \in 1..6 : task_complete(i)
    \/ search_assemble

SpecSearchTasks == Init /\ [][NextSearchTasks]_vars

\* the provider-stats records of a request for a provider
stats_of(request_id, provider) ==
    {k \in DOMAIN provider_stats :
        provider_stats[k].request_id = request_id /\ provider_stats[k].provider = provider}

\* C30: every provider task a cache-miss search starts writes exactly one
\* provider-stats record (request id, provider, result count, status), whether
\* its adapter returns or raises, and the search persists, caches, logs and
\* returns nothing before every started task has completed.
C30_OneStatPerTaskAndBarrier ==
    /\ [](\A k \in DOMAIN provider_stats :
             Cardinality(stats_of(provider_stats[k].request_id,
                                  provider_stats[k].provider)) = 1)
    /\ [][/\ (background # <<>> /\ \E i \in DOMAIN background[1].calls :
                                      ~background[1].calls[i].done)
             => UNCHANGED <<books, bookCache, searchCache, unified, logs, last>>
          /\ (last' # last /\ last'.op = "search" /\ ~last'.hit /\ last'.outcome = "list")
             => \A i \in DOMAIN last'.tasks :
                   \E k \in DOMAIN provider_stats :
                       /\ stats_of(last'.request_id, last'.tasks[i]) = {k}
                       /\ provider_stats[k].status
                             = (IF answer(last'.tasks[i]).kind = "raised"
                                THEN "error" ELSE "success")
                       /\ provider_stats[k].result_count
                             = Len(answer(last'.tasks[i]).items)]_vars

\* a search has returned after its Audible task raised and its iTunes task
\* found books, the iTunes task having completed first
C30_Witness ==
    /\ last.op = "search"
    /\ ~last.hit
    /\ last.outcome = "list"
    /\ last.tasks[1] = "Audible"
    /\ last.result # <<>>
    /\ \E j, k \in DOMAIN provider_stats :
          /\ j < k
          /\ provider_stats[j].request_id = last.request_id
          /\ provider_stats[k].request_id = last.request_id
          /\ provider_stats[j].provider = "iTunes"
          /\ provider_stats[j].result_count > 0
          /\ provider_stats[k].provider = "Audible"
          /\ provider_stats[k].status = "error"

\* the records a provider task offers that pass the rating floor of a request
offered(req, provider) ==
    {b \in Range(answer(provider).items) :
        ~(req.min_rating # NoRate /\ req.min_rating # 0
          /\ ("rating" \notin DOMAIN b \/ b["rating"] < req.min_rating))}

\* C31: the result of a cache-miss search does not depend on the order in
\* which the provider tasks complete: the ids are those any task offered, each
\* once, and for an id offered by several providers the record kept is that of
\* the provider earliest in the fixed task order.
C31_ResultIndependentOfCompletionOrder ==
    [][(last' # last /\ last'.op = "search" /\ ~last'.hit /\ last'.outcome = "list")
       => LET tasks == last'.tasks
              entry == searchCache'[last'.key].data
              ids(i) == {b["asin"] : b \in offered(last'.req, tasks[i])}
          IN  /\ {entry[k]["asin"] : k \in DOMAIN entry}
                    = UNION {ids(i) : i \in DOMAIN tasks}
              /\ \A j, k \in DOMAIN entry : entry[j]["asin"] = entry[k]["asin"] => j = k
              /\ \A k \in DOMAIN entry :
                    LET first == CHOOSE i \in DOMAIN tasks :
                                    /\ entry[k]["asin"] \in ids(i)
                                    /\ \A j \in 1..(i - 1) : entry[k]["asin"] \notin ids(j)
                    IN  /\ entry[k]["provider"] = tasks[first]
                        /\ \E b \in offered(last'.req, tasks[first]) :
                              /\ b["asin"] = entry[k]["asin"]
                              /\ b["title"] = entry[k]["title"]]_vars

\* a search has returned an id that Audible and iTunes both offered, the
\* iTunes task having completed before the Audible task, and the record kept
\* is the Audible one
C31_Witness ==
    /\ last.op = "search"
    /\ ~last.hit
    /\ last.outcome = "list"
    /\ background = <<>>
    /\ \E j, k \in DOMAIN provider_stats :
          /\ j < k
          /\ provider_stats[j].request_id = last.request_id
          /\ provider_stats[k].request_id = last.request_id
          /\ provider_stats[j].provider = "iTunes"
          /\ provider_stats[k].provider = "Audible"
    /\ "X" \in {b["asin"] : b \in offered(last.req, "Audible")}
    /\ "X" \in {b["asin"] : b \in offered(last.req, "iTunes")}
    /\ \E k \in DOMAIN searchCache[last.key].data :
          /\ searchCache[last.key].data[k]["asin"] = "X"
          /\ searchCache[last.key].data[k]["provider"] = "Audible"

\* the candidates of a call that belong to the entity uid after the call, in
\* input order
members_of(cands, U, uid) ==
    LET InEntity(b) == resolve(U, b) # NoEntity /\ resolve(U, b).id = uid
    IN  SelectSeq(cands, InEntity)

\* the first member in input order among those of the highest provider priority
top_member(members) ==
    members[CHOOSE i \in DOMAIN members :
                /\ \A j \in DOMAIN members : book_priority(members[j]) <= book_priority(members[i])
                /\ \A j \in 1..(i - 1) : book_priority(members[j]) < book_priority(members[i])]

C33_NewEntityFromTopPriority ==
    last.op = "unify" =>
        \A e \in unified \ last.before :
            LET members == members_of(last.cands, unified, e.id)
                top == top_member(members)
            IN  /\ members # <<>>
                /\ e.relations = {relation_of(members[i]) : i \in DOMAIN members}
                /\ e.title = top["title"]
                /\ e.authors = top["authors"]

----------------------------------------------------------------------------
(* Specification SpecSettings: searches while the provider flags of the     *)
(* deployment are changed on the settings page                              *)

\* the provider checkboxes of the settings form as the model posts them
ProviderFlags ==
    {[audible |-> a, itunes |-> TRUE, goodreads |-> FALSE, prh |-> FALSE,
      google |-> FALSE, hardcover |-> FALSE] : a \in BOOLEAN}

\* update_one({"_id": "global_config"}, {"$set": {...}}, upsert=True)
save_system_settings(config, providers, search_limit, scrape_limit_pages) ==
    DictUpdate(config, [providers |-> providers, search_limit |-> search_limit,
                        scrape_limit_pages |-> scrape_limit_pages])

\* POST /settings/update, main settings form
update_settings(providers) ==
    /\ settings' = save_system_settings(settings, providers, SearchLimit, ScrapeLimitPages)
    /\ settings' # settings
    /\ last' = [op |-> "settings", providers |-> providers]
    /\ UNCHANGED <<books, bookCache, searchCache, geoCache, provider_stats, logs, unified,
                   lists, now, nreq, upstream, background, origin>>

NextSettings ==
    \/ \E req \in SearchRequests : Search(req, "none")
    \/ \E providers \in ProviderFlags : update_settings(providers)
    \/ Tick

\* both catalogues answer, with one record or with all they have
InitSettings ==
    /\ InitBase
    /\ upstream \in {w \in Worlds : /\ w["Audible"].kind = "ok" /\ w["Audible"].items # <<>>
                                    /\ w["iTunes"].kind = "ok" /\ w["iTunes"].items # <<>>}

SpecSettings == InitSettings /\ [][NextSettings]_vars

\* C34: a change of the provider enable flags takes effect on the next search
\* with the same criteria: a search answered from the search cache gets an
\* entry that was produced under the active-provider set now in force.
C34_CacheEntryOfSameProviderSet ==
    [][(nreq' = nreq + 1 /\ last'.op = "search" /\ last'.hit)
       => origin[last'.key].tasks = started_tasks(last'.req, get_system_settings)]_vars

----------------------------------------------------------------------------
(* Specification SpecCalls: what each provider task of a search is called  *)
(* with (lines 263-309 and the argument handling of the adapters)          *)

Q_isbn == <<"9", "7", "8", "-", "0", "1">>
P_hardcover_google == P_hardcover \o <<",">> \o P_google

\* Python's x or y on optional strings
or_else(x, y) == IF Truthy(x) THEN x ELSE y

\* the term of lines 282 and 301: isbn, else "q author", else q or author
search_term(req) ==
    IF Truthy(req.isbn) THEN req.isbn
    ELSE IF Truthy(req.q) /\ Truthy(req.author) THEN req.q \o <<" ">> \o req.author
    ELSE or_else(req.q, req.author)

\* audible.search_raw and itunes.search_raw: isbn, else author, else query
by_precedence(req) ==
    IF Truthy(req.isbn) THEN [by |-> "isbn", term |-> req.isbn, raised |-> FALSE]
    ELSE IF Truthy(req.author) THEN [by |-> "author", term |-> req.author, raised |-> FALSE]
    ELSE IF Truthy(req.q) THEN [by |-> "text", term |-> req.q, raised |-> FALSE]
    ELSE [by |-> "nothing", term |-> None, raised |-> FALSE]

\* the call a started provider task makes: what it searches by, the term it
\* passes, and whether the adapter raises on its argument
task_call(provider, req) ==
    CASE provider \in {"Audible", "iTunes"} -> by_precedence(req)
      [] provider \in {"Goodreads", "Google Books"} ->
            [by |-> IF Truthy(req.isbn) THEN "isbn" ELSE "text",
             term |-> search_term(req), raised |-> FALSE]
      [] provider = "PRH" ->
            IF Truthy(req.isbn)
            THEN [by |-> "isbn", term |-> strip(replace(req.isbn, "-", <<>>)),
                  raised |-> FALSE]
            ELSE [by |-> "text", term |-> or_else(req.q, req.author), raised |-> FALSE]
      [] provider = "Hardcover" ->
            \* search_term = q or author; hardcover.search_book calls query.lower()
            [by |-> "text", term |-> or_else(req.q, req.author),
             raised |-> or_else(req.q, req.author) = None]

task_calls(req, config) ==
    LET tasks == started_tasks(req, config)
    IN  [i \in DOMAIN tasks |-> [provider |-> tasks[i]] @@ task_call(tasks[i], req)]

CallRequests ==
    [q : {None, Q_Dune}, author : {None, A_FH}, isbn : {None, <<>>, Q_isbn},
     providers : {None, P_hardcover_google}, min_rating : {NoRate}]

\* the settings document: absent, or with the keys and flags of Google Books
\* and Hardcover
CallConfigs ==
    {NoConfig} \cup
    {[providers |-> [audible |-> TRUE, itunes |-> TRUE, goodreads |-> TRUE, prh |-> TRUE,
                     google |-> g, hardcover |-> h],
      search_limit |-> SearchLimit, scrape_limit_pages |-> ScrapeLimitPages,
      google_books_api_key |-> "k", hardcover_api_key |-> "k"] : g, h \in BOOLEAN}

CallsCall ==
    /\ last.op = "none"
    /\ ~no_criteria(upstream.req)
    /\ LET config == IF upstream.config # NoConfig THEN upstream.config ELSE DEFAULT_SETTINGS
       IN  last' = [op |-> "calls", req |-> upstream.req,
                    calls |-> task_calls(upstream.req, config)]
    /\ UNCHANGED <<books, bookCache, searchCache, geoCache, provider_stats, logs, unified,
                   lists, settings, now, nreq, upstream, background, origin>>

InitCalls == InitBase /\ upstream \in [req : CallRequests, config : CallConfigs]

NextCalls == CallsCall

SpecCalls == InitCalls /\ [][NextCalls]_vars

\* C35: when a search supplies an isbn together with a query and/or author,
\* every started provider task is issued as an identifier search: none is
\* called with the query or author in place of the isbn, and none fails.
C35_IdentifierSearchTakesPrecedence ==
    (/\ last.op = "calls"
     /\ Truthy(last.req.isbn)
     /\ Truthy(last.req.q) \/ Truthy(last.req.author))
    => \A i \in DOMAIN last.calls :
          /\ last.calls[i].by = "isbn"
          /\ last.calls[i].term \in {last.req.isbn, strip(replace(last.req.isbn, "-", <<>>))}
          /\ ~last.calls[i].raised

----------------------------------------------------------------------------
(* Specification SpecFlush: searches and detail requests while cache       *)
(* entries are flushed, deleted or expire                                  *)

\* redis_client.flushdb(): every key of the cache database goes
flush_all_cache ==
    /\ bookCache # EmptyDict \/ searchCache # EmptyDict \/ geoCache # EmptyDict
    /\ bookCache' = EmptyDict
    /\ searchCache' = EmptyDict
    /\ geoCache' = EmptyDict
    /\ UNCHANGED <<books, provider_stats, logs, unified, lists, settings, now, nreq,
                   upstream, background, origin, last>>

\* redis_client.delete(key), on a book_v7: key or on a search_v14: key
delete_cache_key(prefix, key) ==
    /\ IF prefix = "book_v7"
       THEN /\ key \in DOMAIN bookCache
            /\ bookCache' = DictPop(bookCache, key)
            /\ UNCHANGED searchCache
       ELSE /\ key \in DOMAIN searchCache
            /\ searchCache' = DictPop(searchCache, key)
            /\ UNCHANGED bookCache
    /\ UNCHANGED <<books, geoCache, provider_stats, logs, unified, lists, settings, now, nreq,
                   upstream, background, origin, last>>

NextFlush ==
    \/ \E req \in SearchRequests : Search(req, "none")
    \/ \E asin \in DOMAIN books : get_book_details(asin)
    \/ flush_all_cache
    \/ \E key \in DOMAIN bookCache : delete_cache_key("book_v7", key)
    \/ \E key \in DOMAIN searchCache : delete_cache_key("search_v14", key)
    \/ Tick

SpecFlush == InitSettings /\ [][NextFlush]_vars

\* C36: absence of a cache entry is never an error: a detail request for an id
\* of the durable store that has no book-cache entry returns the stored record
\* without a provider call and writes a live cache entry, and a search whose
\* key has no search-cache entry runs its provider tasks and returns a list.
C36_AbsentEntryIsAMiss ==
    [][/\ (nreq' = nreq + 1 /\ last'.op = "details"
           /\ last'.asin \in DOMAIN books /\ last'.asin \notin DOMAIN bookCache)
          => /\ last'.outcome = "book"
             /\ last'.tried = <<"cache", "store">>
             /\ \A k \in DOMAIN books[last'.asin] :
                   last'.result[k] = books[last'.asin][k]
             /\ books' = books
             /\ last'.asin \in DOMAIN live(bookCache', now)
             /\ bookCache'[last'.asin].data = json_book(books[last'.asin])
       /\ (nreq' = nreq + 1 /\ last'.op = "search" /\ ~no_criteria(last'.req)
           /\ last'.key \notin DOMAIN searchCache)
          => /\ ~last'.hit
             /\ last'.outcome = "list"
             /\ last'.tasks = started_tasks(last'.req, get_system_settings)
             /\ Len(provider_stats') = Len(provider_stats) + Len(last'.tasks)]_vars

\* at time 0, when no entry can have expired, a detail request has found in
\* the store only an id that a search persisted and cached: the entry was
\* flushed or deleted in between, and the request has written it again
C36_Witness ==
    /\ now = 0
    /\ last.op = "details"
    /\ last.outcome = "book"
    /\ last.tried = <<"cache", "store">>
    /\ last.asin \in DOMAIN bookCache
    /\ bookCache[last.asin].data = json_book(books[last.asin])
    /\ \E i \in DOMAIN logs :
          logs[i].action = "search" /\ logs[i].details = "Multi-Provider Query"

----------------------------------------------------------------------------
(* Specification SpecScrape: goodreads.scrape_list_from_url, page by page  *)

\* how many pages the list site has
MaxSitePages == 2

L_default == <<"G", "o", "o", "d", "r", "e", "a", "d", "s", " ", "L", "i", "s", "t">>

\* what one GET of a list page gives: an exception, a status other than 200,
\* or a page with its rows and possibly a next-page link
ListPages ==
    {[kind |-> "raises", status |-> 0, rows |-> <<>>, next |-> FALSE],
     [kind |-> "page", status |-> 404, rows |-> <<>>, next |-> FALSE]}
    \cup {[kind |-> "page", status |-> 200, rows |-> r, next |-> n] :
             r \in {<<>>, <<g1>>, <<g2, g1>>}, n \in BOOLEAN}

ListSites == UNION {[1..n -> ListPages] : n \in 1..MaxSitePages}

\* the page behind the i-th URL of the list; a link past the last page of the
\* site leads to a 404
page_at(site, i) ==
    IF i \in DOMAIN site THEN site[i]
    ELSE [kind |-> "page", status |-> 404, rows |-> <<>>, next |-> FALSE]

\* lines 134-137: the rows of a page are appended, an id already in all_books
\* is skipped
RECURSIVE append_new(_, _)
append_new(all_books, rows) ==
    IF rows = <<>> THEN all_books
    ELSE append_new(IF \E k \in DOMAIN all_books : all_books[k]["asin"] = Head(rows)["asin"]
                    THEN all_books ELSE Append(all_books, Head(rows)),
                    Tail(rows))

\* return list_title, all_books
scrape_return(run) ==
    /\ last' = [op |-> "scrape", max_pages |-> run.max_pages,
                list_title |-> run.list_title, all_books |-> run.all_books,
                fetched |-> run.fetched, slept |-> run.slept]
    /\ background' = <<>>

\* lines 94-106: the call up to the first test of the loop condition
scrape_list_from_url(max_pages) ==
    /\ last.op = "none"
    /\ background = <<>>
    /\ LET run == [phase |-> "loop", current_url |-> 1, page_count |-> 0,
                   max_pages |-> max_pages, list_title |-> L_default,
                   all_books |-> <<>>, fetched |-> 0, slept |-> 0]
       IN  IF run.page_count < max_pages
           THEN background' = <<run>> /\ UNCHANGED last
           ELSE scrape_return(run)
    /\ UNCHANGED <<books, bookCache, searchCache, geoCache, provider_stats, logs, unified,
                   lists, settings, now, nreq, upstream, origin>>

\* lines 107-149: one pass of the loop body, from the GET to the break or to
\* the start of the sleep
scrape_page ==
    /\ background # <<>>
    /\ background[1].phase = "loop"
    /\ LET run == background[1]
           page == page_at(upstream, run.current_url)
           got == [run EXCEPT !.fetched = @ + 1]
           titled == IF run.page_count = 0 /\ page.kind = "page" /\ page.status = 200
                     THEN [got EXCEPT !.list_title = L_title] ELSE got
           filled == [titled EXCEPT !.all_books = append_new(@, page.rows)]
       IN  IF page.kind = "raises" \/ page.status # 200 THEN scrape_return(got)
           ELSE IF page.rows = <<>> THEN scrape_return(titled)
           ELSE IF ~page.next THEN scrape_return(filled)
           ELSE /\ background' = <<[filled EXCEPT !.current_url = @ + 1,
                                                  !.page_count = @ + 1,
                                                  !.slept = @ + 1,
                                                  !.phase = "sleep"]>>
                /\ UNCHANGED last
    /\ UNCHANGED <<books, bookCache, searchCache, geoCache, provider_stats, logs, unified,
                   lists, settings, now, nreq, upstream, origin>>

\* line 146: asyncio.sleep is over; the loop condition of line 107 is tested
scrape_wake ==
    /\ background # <<>>
    /\ background[1].phase = "sleep"
    /\ LET run == background[1]
       IN  IF run.page_count < run.max_pages
           THEN background' = <<[run EXCEPT !.phase = "loop"]>> /\ UNCHANGED last
           ELSE scrape_return(run)
    /\ UNCHANGED <<books, bookCache, searchCache, geoCache, provider_stats, logs, unified,
                   lists, settings, now, nreq, upstream, origin>>

InitScrape == InitBase /\ upstream \in ListSites

NextScrape ==
    \/ \E max_pages \in 0..MaxSitePages : scrape_list_from_url(max_pages)
    \/ scrape_page
    \/ scrape_wake

\* the call runs on the event loop until it returns
SpecScrape == InitScrape /\ [][NextScrape]_vars /\ WF_vars(NextScrape)

\* whether the scraper goes on after the page
goes_on(page) == page.kind = "page" /\ page.status = 200 /\ page.rows # <<>> /\ page.next

\* the first page of the site after which the scraper does not go on
first_stop(site) == CHOOSE i \in 1..(Len(site) + 1) :
                        /\ ~goes_on(page_at(site, i))
                        /\ \A j \in 1..(i - 1) : goes_on(page_at(site, j))

\* the rows of the first n pages, one after the other
RECURSIVE rows_upto(_, _)
rows_upto(site, n) ==
    IF n = 0 THEN <<>> ELSE rows_upto(site, n - 1) \o page_at(site, n).rows

\* C37: the paginated list scraper always terminates and fetches at most
\* max_pages pages: it stops at the first page that is non-200, has no rows,
\* has no next-page link or raises, it sleeps only between a page and a
\* following page, and the books it returns contain each id at most once in
\* first-seen order.
C37_ScraperTerminatesWithinCap ==
    /\ <>(last.op = "scrape")
    /\ [](background # <<>> => background[1].fetched <= background[1].max_pages)
    /\ [](last.op = "scrape" =>
            LET n == IF first_stop(upstream) < last.max_pages THEN first_stop(upstream)
                     ELSE last.max_pages
                seen == rows_upto(upstream, n)
            IN  /\ last.fetched = n
                /\ last.slept = (IF n = 0 THEN 0 ELSE n - 1)
                /\ \A i, j \in DOMAIN last.all_books :
                      last.all_books[i]["asin"] = last.all_books[j]["asin"] => i = j
                /\ {last.all_books[i] : i \in DOMAIN last.all_books} = Range(seen)
                /\ \A i, j \in DOMAIN last.all_books :
                      i < j => \E k \in DOMAIN seen :
                                  /\ seen[k] = last.all_books[i]
                                  /\ \A m \in 1..k : seen[m] # last.all_books[j])

----------------------------------------------------------------------------
(* Specification SpecHitsConcurrent: get_book_details calls that hit the   *)
(* cache, each giving way to the others at its awaits                      *)

\* lines 362-367: the call up to the answer of await get_cache(cache_key),
\* which holds an entry; the call keeps what it read
hit_read(asin) ==
    /\ nreq < MaxRequests
    /\ Len(background) < MaxRunning
    /\ get_cache(bookCache, asin).truthy
    /\ nreq' = nreq + 1
    /\ background' = Append(background,
                            [kind |-> "details", pc |-> "hit", asin |-> asin,
                             cached |-> get_cache(bookCache, asin).value])
    /\ UNCHANGED <<books, bookCache, searchCache, geoCache, provider_stats, logs, unified,
                   lists, settings, now, upstream, origin, last>>

\* lines 368-372: the call counts the access on what it read, writes the
\* entry back, logs the hit and returns
hit_write(i) ==
    /\ i \in DOMAIN background
    /\ background[i].pc = "hit"
    /\ LET call == background[i]
           hit == bump_access(call.cached, now)
           client == process_client_info(DetailAddress, "US")
       IN  /\ bookCache' = set_cache(bookCache, call.asin, json_book(hit), now)
           /\ logs' = Append(logs, log_record("fetch_metadata", call.asin, "Redis Hit",
                                              client))
           /\ last' = [op |-> "details", asin |-> call.asin, outcome |-> "book",
                       result |-> DictSet(hit, "custom_metadata", EmptyDict)]
    /\ background' = [k \in 1..(Len(background) - 1) |->
                         IF k < i THEN background[k] ELSE background[k + 1]]
    /\ UNCHANGED <<books, searchCache, geoCache, provider_stats, unified, lists, settings,
                   now, nreq, upstream, origin>>

\* the store and the cache as a search at time 0 that found a1 and a2 leaves them
InitHitsConcurrent ==
    /\ books = persist_all(EmptyDict, <<_init_stats(a1, 0), _init_stats(a2, 0)>>, 0)
    /\ bookCache = cache_all(EmptyDict, <<_init_stats(a1, 0), _init_stats(a2, 0)>>, 0)
    /\ searchCache = EmptyDict
    /\ geoCache = EmptyDict
    /\ provider_stats = <<>>
    /\ logs = <<>>
    /\ unified = {}
    /\ lists = EmptyDict
    /\ settings = NoConfig
    /\ now = 0
    /\ nreq = 0
    /\ background = <<>>
    /\ origin = EmptyDict
    /\ last = NoCall
    /\ upstream = QuietUpstream

NextHitsConcurrent ==
    \/ \E asin \in DOMAIN bookCache : hit_read(asin)
    \/ \E i \in 1..MaxRunning : hit_write(i)
    \/ Tick

SpecHitsConcurrent == InitHitsConcurrent /\ [][NextHitsConcurrent]_vars

\* the calls that hit the cache for an id and have returned
hits_logged(asin) ==
    Cardinality({k \in DOMAIN logs : logs[k].target = asin /\ logs[k].details = "Redis Hit"})

\* C38: k concurrent get_book_details calls that all hit the cache for the
\* same id raise the cached access_count by exactly k under every
\* interleaving: once they have all returned, the entry counts the access of
\* the search that wrote it and one access per call.
C38_NoLostAccessCount ==
    background = <<>> =>
        \A asin \in DOMAIN bookCache :
            bookCache[asin].data["access_count"] = 1 + hits_logged(asin)

----------------------------------------------------------------------------
(* Specification SpecDeleteConcurrent: delete_book_from_library next to    *)
(* detail requests and the persisting loop of a search on the same id      *)

\* the list of running calls without its i-th member
without(running, i) ==
    [k \in 1..(Len(running) - 1) |-> IF k < i THEN running[k] ELSE running[k + 1]]

\* POST /library/delete: the call is made
delete_begin(asin) ==
    /\ nreq < MaxRequests
    /\ Len(background) < MaxRunning
    /\ nreq' = nreq + 1
    /\ background' = Append(background, [kind |-> "delete", pc |-> "delete_store",
                                         asin |-> asin])
    /\ UNCHANGED <<books, bookCache, searchCache, geoCache, provider_stats, logs, unified,
                   lists, settings, now, upstream, origin, last>>

\* line 143: await books_collection.delete_one({"asin": asin})
delete_store(i) ==
    /\ i \in DOMAIN background
    /\ background[i].pc = "delete_store"
    /\ books' = IF background[i].asin \in DOMAIN books
                THEN DictPop(books, background[i].asin) ELSE books
    /\ background' = [background EXCEPT ![i] = [@ EXCEPT !.pc = "delete_cache"]]
    /\ last' = [op |-> "delete_store", asin |-> background[i].asin]
    /\ UNCHANGED <<bookCache, searchCache, geoCache, provider_stats, logs, unified, lists,
                   settings, now, nreq, upstream, origin>>

\* line 144: await redis_client.delete(f"book_v7:{asin}")
delete_cache(i) ==
    /\ i \in DOMAIN background
    /\ background[i].pc = "delete_cache"
    /\ bookCache' = IF background[i].asin \in DOMAIN bookCache
                    THEN DictPop(bookCache, background[i].asin) ELSE bookCache
    /\ background' = without(background, i)
    /\ last' = [op |-> "delete_cache", asin |-> background[i].asin]
    /\ UNCHANGED <<books, searchCache, geoCache, provider_stats, logs, unified, lists,
                   settings, now, nreq, upstream, origin>>

\* lines 362-377: the call misses the cache and gets the document of the id
\* from await get_book_from_db(asin)
store_read(asin) ==
    /\ nreq < MaxRequests
    /\ Len(background) < MaxRunning
    /\ ~get_cache(bookCache, asin).truthy
    /\ asin \in DOMAIN books
    /\ nreq' = nreq + 1
    /\ background' = Append(background, [kind |-> "details", pc |-> "store", asin |-> asin,
                                         stored |-> books[asin]])
    /\ UNCHANGED <<books, bookCache, searchCache, geoCache, provider_stats, logs, unified,
                   lists, settings, now, upstream, origin, last>>

\* lines 378-381: the call writes the document to the cache, logs and returns
store_write(i) ==
    /\ i \in DOMAIN background
    /\ background[i].pc = "store"
    /\ LET call == background[i]
           client == process_client_info(DetailAddress, "US")
       IN  /\ bookCache' = write_through(bookCache, call.asin, call.stored, now)
           /\ logs' = Append(logs, log_record("fetch_metadata", call.asin, "Mongo Hit",
                                              client))
           /\ last' = [op |-> "details", asin |-> call.asin, outcome |-> "book",
                       result |-> DictSet(call.stored, "custom_metadata", EmptyDict)]
    /\ background' = without(background, i)
    /\ UNCHANGED <<books, searchCache, geoCache, provider_stats, unified, lists, settings,
                   now, nreq, upstream, origin>>

\* the store and the cache: empty, as a search that found a1 leaves them, and
\* the same after the cache entry has expired
InitDeleteConcurrent ==
    /\ \E lib \in StartLibraries \cup
                    {[books |-> persist_all(EmptyDict, <<_init_stats(a1, 0)>>, 0),
                      bookCache |-> EmptyDict]} :
          books = lib.books /\ bookCache = lib.bookCache
    /\ searchCache = EmptyDict
    /\ geoCache = EmptyDict
    /\ provider_stats = <<>>
    /\ logs = <<>>
    /\ unified = {}
    /\ lists = EmptyDict
    /\ settings = NoConfig
    /\ now = 0
    /\ nreq = 0
    /\ background = <<>>
    /\ origin = EmptyDict
    /\ last = NoCall
    /\ upstream = QuietUpstream

NextDeleteConcurrent ==
    \/ delete_begin("X")
    \/ \E i \in 1..MaxRunning : delete_store(i)
    \/ \E i \in 1..MaxRunning : delete_cache(i)
    \/ hit_read("X")
    \/ \E i \in 1..MaxRunning : hit_write(i)
    \/ store_read("X")
    \/ \E i \in 1..MaxRunning : store_write(i)
    \/ ingest_begin([kind |-> "search", todo |-> <<a1>>])
    \/ \E i \in 1..MaxRunning : ingest_upsert(i)
    \/ \E i \in 1..MaxRunning : ingest_cache(i)

SpecDeleteConcurrent == InitDeleteConcurrent /\ [][NextDeleteConcurrent]_vars

\* C39: delete_book_from_library(id) removes id from the durable store and
\* from the book cache, and under any interleaving of a delete with concurrent
\* get_book_details or search operations on the same id, once all operations
\* have completed a book cache entry for id exists only if a durable entry
\* for id exists.
C39_NoCacheEntryWithoutStoreEntry ==
    /\ [][/\ last'.op = "delete_store" => last'.asin \notin DOMAIN books'
          /\ last'.op = "delete_cache" => last'.asin \notin DOMAIN bookCache']_vars
    /\ [](background = <<>> => \A asin \in DOMAIN bookCache : asin \in DOMAIN books)

====
